---------------------------- MODULE Spec2Model ----------------------------
(***************************************************************************)
(* Authentication core of the inventory-management backend                 *)
(* (backend/src/auth/auth.service.ts).                                     *)
(*                                                                         *)
(* The credential store (Prisma) is the shared state.  Every public        *)
(* operation of AuthService is a request-scoped flow run by a process; a   *)
(* flow is cut at the awaited store accesses that read or write user       *)
(* records, so that two flows interleave exactly where the Node event loop *)
(* lets them.  The awaited security-log write that follows a store access  *)
(* is folded into the step of that access.  ipAddress and userAgent are    *)
(* only copied into log rows and are left out.  The calls of the user and  *)
(* role tables and the writes of the security log reject while the table   *)
(* is down.                                                                *)
(***************************************************************************)
EXTENDS Integers, Sequences, FiniteSets, TLC

(***************************************************************************)
(* Bounds of the model.                                                    *)
(***************************************************************************)
NumProcs == 2
MaxCalls == 2
MaxResetCalls == 3
MaxRecoverCalls == 3
MaxLoginCalls == 2
MaxRegisterCalls == 3
MaxTicks == 2
MaxAdmin == 1
MaxSessionCalls == 3
MaxFaultCalls == 2
NumFlows == 2
MaxClientCalls == 2
MaxNest == 2
MaxGuardCalls == 1

Procs == 1..NumProcs

(***************************************************************************)
(* Input domains.                                                          *)
(***************************************************************************)
NULL == -1
UNDEFINED == "undefined"

Emails == {"a@x.com", "b@x.com", "c@x.com"}
Passwords == {"Secret#1", "NewSecret#1"}
Names == {"alice"}
Statuses == {"ACTIVE", "INACTIVE", "SUSPENDED"}
RoleInputs == {NULL, 2}
ResetTokens == {1, 2}
UserIdInputs == {1, 2, 3}
PermLists == {<<"products:read">>,
              <<"products:read", "products:write">>,
              <<"products:read", "products:read">>}

ResetTtlMs == 15 * 60 * 1000
AccessTtlSec == 15 * 60
RefreshTtlSec == 7 * 24 * 60 * 60
TickSteps == {1, ResetTtlMs}
SessionSteps == {AccessTtlSec * 1000, RefreshTtlSec * 1000}

\* values the configuration may hold for JWT_SECRET and JWT_REFRESH_SECRET
SecretInputs == {UNDEFINED, "", "access-secret", "refresh-secret"}

\* the collaborators whose calls may reject: the user and role tables, and
\* the security-log table
Collaborators == {"store", "securityLog"}

VARIABLES
  users,            \* prisma.user: id -> row
  roles,            \* prisma.role with its rolePermissions join: id -> row
  securityLog,      \* prisma.securityLog: sequence of rows
  auditLog,         \* rows written through auditService.log
  jwtSecret,        \* AuthService.jwtSecret
  jwtRefreshSecret, \* AuthService.jwtRefreshSecret
  now,              \* Date.now(), in milliseconds
  pc,               \* per flow: the await it is suspended at, or "idle"
  call,             \* per flow: the operation and its arguments
  loc,              \* per flow: the local variables that live across awaits
  result,           \* per flow: what the last completed call returned or threw
  issued,           \* token pairs handed to clients
  nextUuid,         \* source of uuidv4() values
  down,             \* the collaborators whose calls reject at present
  service,          \* "configured", then "constructed" or "failed"
  calls, ticks, admins,
  localStorage,     \* browser: the items accessToken and refreshToken
  currentUser,      \* AuthProvider: the state user
  loading,          \* AuthProvider: the state loading
  href,             \* browser: the path shown
  unloading,        \* browser: window.location was assigned, the page
                    \* has not been replaced yet
  flows,            \* browser: per asynchronous flow, the provider
                    \* function it runs and the request it awaits
  view,             \* what the component wrapped by withAuth rendered last
  clientCalls

vars == <<users, roles, securityLog, auditLog, jwtSecret, jwtRefreshSecret,
          now, pc, call, loc, result, issued, nextUuid, down, calls, ticks,
          admins, service, localStorage, currentUser, loading, href,
          unloading, flows, view, clientCalls>>

browser == <<localStorage, currentUser, loading, href, unloading, flows,
             view, clientCalls>>

server == <<users, roles, securityLog, auditLog, jwtSecret, jwtRefreshSecret,
            now, pc, call, loc, result, issued, nextUuid, down, calls, ticks,
            admins, service>>

(***************************************************************************)
(* Values of the browser state.                                            *)
(***************************************************************************)
Flows == 1..NumFlows

\* localStorage.getItem of an item that is not stored (null, falsy as the
\* empty string is)
NoItem == ""

\* localStorage without and with the two items; a stored token is opaque
\* to the client
NoTokens == [accessToken |-> NoItem, refreshToken |-> NoItem]
Tokens == [accessToken |-> "jwt", refreshToken |-> "jwt"]

\* a flow: the provider function it runs (op), the await it stands at (pc),
\* and the request of that await: its endpoint, how many interceptor
\* refresh calls are nested in it (MaxNest stands for MaxNest or more),
\* whether the request now awaited is a re-send, the parity of the number
\* of requests sent, how often the request of the await itself was sent,
\* the status answered last, and how the last call of the flow ended
IdleFlow == [op |-> "none", pc |-> "idle", endpoint |-> "", nest |-> 0,
             retry |-> FALSE, seq |-> 0, sent |-> 0, answer |-> 0,
             outcome |-> "none"]

\* the effect initializeAuth, scheduled by the mount of AuthProvider
MountFlow == [IdleFlow EXCEPT !.op = "initializeAuth", !.pc = "mount"]

\* the state user while nobody is signed in (null)
NoUser == [id |-> NULL, role |-> [name |-> ""], permissions |-> <<>>]

NoView == [rendered |-> "nothing", loading |-> FALSE, user |-> NoUser,
           requiredPermissions |-> <<>>, requiredRole |-> UNDEFINED]

\* no browser is open
NoBrowser ==
  /\ localStorage = NoTokens
  /\ currentUser = NoUser
  /\ loading = FALSE
  /\ href = "/"
  /\ unloading = FALSE
  /\ flows = [f \in Flows |-> IdleFlow]
  /\ view = NoView
  /\ clientCalls = 0

(***************************************************************************)
(* bcrypt: hash(p) is a value that compare accepts for p and for nothing   *)
(* else.                                                                   *)
(***************************************************************************)
bcryptHash(password) == "$2a$12$" \o password

bcryptCompare(password, passwordHash) == passwordHash = bcryptHash(password)

(***************************************************************************)
(* jwtService.sign / jwtService.verify.  Times in a token are seconds.     *)
(***************************************************************************)
jwtSign(payload, secret, ttlSec, t) ==
  [payload |-> payload, iat |-> t \div 1000, exp |-> (t \div 1000) + ttlSec,
   sig |-> secret]

jwtVerify(token, secret, t) ==
  /\ token.sig = secret
  /\ (t \div 1000) < token.exp

(***************************************************************************)
(* Store queries and writes.                                               *)
(***************************************************************************)
UserIds == DOMAIN users

findUniqueByEmail_none(email) == NULL

findUniqueByEmail(email) ==
  IF \E u \in UserIds : users[u].email = email
  THEN CHOOSE u \in UserIds : users[u].email = email
  ELSE NULL

findUniqueById(id) == IF id \in UserIds THEN id ELSE NULL

\* the unique index on User.email, as user.create meets it
uniqueViolation(email) == \E u \in UserIds : users[u].email = email

\* include: { role: { include: { rolePermissions: { include: { permission } } } } }
withRole(u) ==
  [id |-> u,
   email |-> users[u].email,
   name |-> users[u].name,
   passwordHash |-> users[u].passwordHash,
   status |-> users[u].status,
   roleId |-> users[u].roleId,
   lastLoginAt |-> users[u].lastLoginAt,
   passwordResetToken |-> users[u].passwordResetToken,
   passwordResetExpires |-> users[u].passwordResetExpires,
   role |-> roles[users[u].roleId]]

findFirstByResetToken_gte(token, t) ==
  IF \E u \in UserIds : /\ users[u].passwordResetToken = token
                        /\ users[u].passwordResetExpires >= t
  THEN CHOOSE u \in UserIds : /\ users[u].passwordResetToken = token
                              /\ users[u].passwordResetExpires >= t
  ELSE NULL

findFirstByResetToken(token, t) ==
  IF \E u \in UserIds : /\ users[u].passwordResetToken = token
                        /\ users[u].passwordResetExpires > t
  THEN CHOOSE u \in UserIds : /\ users[u].passwordResetToken = token
                              /\ users[u].passwordResetExpires > t
  ELSE NULL

\* prisma.user.update({ where: { id }, data }): the fields of data replace
\* those of the row, the others stay
prismaUpdate(id, data) ==
  [users EXCEPT ![id] =
     [f \in DOMAIN users[id] |->
        IF f \in DOMAIN data THEN data[f] ELSE users[id][f]]]

(***************************************************************************)
(* logSecurityEvent: the row it creates.                                   *)
(***************************************************************************)
Truthy(s) == s # "" /\ s # UNDEFINED

logSecurityEvent(event, userId, email, errorMessage) ==
  [userId |-> userId, event |-> event, email |-> email,
   success |-> ~Truthy(errorMessage), errorMessage |-> errorMessage]

(***************************************************************************)
(* generateTokenPair and formatUserResponse.                               *)
(***************************************************************************)
RECURSIVE Dedup(_)
Dedup(s) ==
  IF s = <<>> THEN <<>>
  ELSE LET front == Dedup(SubSeq(s, 1, Len(s) - 1))
           last == s[Len(s)]
       IN IF \E i \in 1..Len(front) : front[i] = last THEN front
          ELSE Append(front, last)

permissionKeys_dedup(user) == Dedup(user.role.rolePermissions)

\* user.role.rolePermissions.map((rp) => rp.permission.key)
permissionKeys(user) == user.role.rolePermissions

generateTokenPair_fatRefresh(user, t) ==
  [accessToken |->
     jwtSign([sub |-> user.id, email |-> user.email, role |-> user.role.name,
              permissions |-> permissionKeys(user)],
             jwtSecret, AccessTtlSec, t),
   refreshToken |->
     jwtSign([sub |-> user.id, type |-> "refresh", role |-> user.role.name],
             jwtRefreshSecret, RefreshTtlSec, t),
   expiresIn |-> "15m"]

generateTokenPair(user, t) ==
  [accessToken |->
     jwtSign([sub |-> user.id, email |-> user.email, role |-> user.role.name,
              permissions |-> permissionKeys(user)],
             jwtSecret, AccessTtlSec, t),
   refreshToken |->
     jwtSign([sub |-> user.id, type |-> "refresh"],
             jwtRefreshSecret, RefreshTtlSec, t),
   expiresIn |-> "15m"]

formatUserResponse(user) ==
  [id |-> user.id, email |-> user.email, name |-> user.name,
   status |-> user.status, roleId |-> user.roleId,
   lastLoginAt |-> user.lastLoginAt, role |-> user.role,
   permissions |-> permissionKeys(user)]

(***************************************************************************)
(* Flows.                                                                  *)
(***************************************************************************)
Throw(class, message) == [status |-> class, message |-> message]

\* what a call of prisma.user or prisma.role rejects with while the store
\* is down, and what update rejects with when no row has the id
StoreDown == "store" \in down
\* a rejection need not be an Error with a text: the value thrown may have
\* an empty message or none (error.message is then undefined)
SilentMessages == {"", UNDEFINED}
StoreError ==
  IF \E m \in SilentMessages : m \in down
  THEN Throw("Error", CHOOSE m \in SilentMessages : m \in down)
  ELSE Throw("PrismaClientInitializationError",
             "Can't reach database server")
RecordNotFound ==
  Throw("PrismaClientKnownRequestError", "Record to update not found.")

\* what jwtService.sign throws while it is down (an expiresIn it cannot
\* read), and what auditService.log rejects with while it is down
SignDown == "jwtService" \in down
SignError ==
  Throw("Error", "expiresIn should be a number of seconds or a timespan")
AuditDown == "auditService" \in down
AuditError == Throw("Error", "Audit log write failed")

Idle == [op |-> "none"]
NoLoc == [u |-> NULL]
NoResult == [status |-> "none", message |-> ""]

SeedUser(email, roleId) ==
  [email |-> email, name |-> "alice",
   passwordHash |-> bcryptHash("Secret#1"), status |-> "ACTIVE",
   roleId |-> roleId, lastLoginAt |-> NULL, passwordResetToken |-> NULL,
   passwordResetExpires |-> NULL]

InitServer ==
  /\ users = (1 :> SeedUser("a@x.com", 1)) @@ (2 :> SeedUser("b@x.com", 2))
  /\ roles = (1 :> [name |-> "Subordinate",
                    rolePermissions |-> <<"products:read">>]) @@
             (2 :> [name |-> "Admin",
                    rolePermissions |-> <<"products:read", "products:write">>])
  /\ securityLog = <<>>
  /\ auditLog = <<>>
  /\ jwtSecret = "access-secret"
  /\ jwtRefreshSecret = "refresh-secret"
  /\ now = 0
  /\ pc = [p \in Procs |-> "idle"]
  /\ call = [p \in Procs |-> Idle]
  /\ loc = [p \in Procs |-> NoLoc]
  /\ result = [p \in Procs |-> NoResult]
  /\ issued = {}
  /\ nextUuid = 1
  /\ down = {}
  /\ calls = 0
  /\ ticks = 0
  /\ admins = 0
  /\ service = "constructed"

Init == InitServer /\ NoBrowser

constructorThrows_accessOnly(secret, refreshSecret) == ~Truthy(secret)

\* constructor: if (!this.jwtSecret || !this.jwtRefreshSecret) throw
constructorThrows(secret, refreshSecret) ==
  ~Truthy(secret) \/ ~Truthy(refreshSecret)

\* the role table as seeded, and one in which no role is named Subordinate
RoleTables ==
  LET seeded == (1 :> [name |-> "Subordinate",
                       rolePermissions |-> <<"products:read">>]) @@
                (2 :> [name |-> "Admin",
                       rolePermissions |->
                         <<"products:read", "products:write">>])
  IN {seeded, [seeded EXCEPT ![1].name = "Staff"]}

\* The service after construction in any deployment: every pair of secrets
\* the constructor lets through, with either role table.
InitDeploy ==
  /\ users = (1 :> SeedUser("a@x.com", 1)) @@ (2 :> SeedUser("b@x.com", 2))
  /\ roles \in RoleTables
  /\ securityLog = <<>>
  /\ auditLog = <<>>
  /\ jwtSecret \in SecretInputs
  /\ jwtRefreshSecret \in SecretInputs
  /\ ~constructorThrows(jwtSecret, jwtRefreshSecret)
  /\ now = 0
  /\ pc = [p \in Procs |-> "idle"]
  /\ call = [p \in Procs |-> Idle]
  /\ loc = [p \in Procs |-> NoLoc]
  /\ result = [p \in Procs |-> NoResult]
  /\ issued = {}
  /\ nextUuid = 1
  /\ down = {}
  /\ calls = 0
  /\ ticks = 0
  /\ admins = 0
  /\ service = "constructed"
  /\ NoBrowser

\* The configuration is read and the service is not constructed yet.
InitBoot ==
  /\ users = (1 :> SeedUser("a@x.com", 1)) @@ (2 :> SeedUser("b@x.com", 2))
  /\ roles \in RoleTables
  /\ securityLog = <<>>
  /\ auditLog = <<>>
  /\ jwtSecret \in SecretInputs
  /\ jwtRefreshSecret \in SecretInputs
  /\ now = 0
  /\ pc = [p \in Procs |-> "idle"]
  /\ call = [p \in Procs |-> Idle]
  /\ loc = [p \in Procs |-> NoLoc]
  /\ result = [p \in Procs |-> NoResult]
  /\ issued = {}
  /\ nextUuid = 1
  /\ down = {}
  /\ calls = 0
  /\ ticks = 0
  /\ admins = 0
  /\ service = "configured"
  /\ NoBrowser

\* new AuthService(...): the constructor returns or throws
constructor ==
  /\ service = "configured"
  /\ service' = IF constructorThrows(jwtSecret, jwtRefreshSecret)
                THEN "failed" ELSE "constructed"
  /\ UNCHANGED <<users, roles, securityLog, auditLog, jwtSecret,
                 jwtRefreshSecret, now, pc, call, loc, result, issued,
                 nextUuid, down, calls, ticks, admins, browser>>

\* A request is taken by the first flow that is free: flows are
\* interchangeable.
Begin(p, c) ==
  /\ service = "constructed"
  /\ pc[p] = "idle"
  /\ \A q \in Procs : q < p => pc[q] # "idle"
  /\ calls' = calls + 1
  /\ call' = [call EXCEPT ![p] = c]

Suspend(p, at, l) ==
  /\ pc' = [pc EXCEPT ![p] = at]
  /\ loc' = [loc EXCEPT ![p] = l]
  /\ result' = [result EXCEPT ![p] = NoResult]

Return(p, r) ==
  /\ pc' = [pc EXCEPT ![p] = "idle"]
  /\ loc' = [loc EXCEPT ![p] = NoLoc]
  /\ result' = [result EXCEPT ![p] = r]

Log_overwrite(row) ==
  securityLog' = IF "securityLog" \in down THEN securityLog
                 ELSE IF securityLog = <<>> THEN <<row>>
                 ELSE [securityLog EXCEPT ![Len(securityLog)] = row]

\* await this.logSecurityEvent(...): the row is created, or the rejection
\* of securityLog.create is caught and the log stays as it was
Logged(log, row) ==
  IF "securityLog" \in down THEN log ELSE Append(log, row)

Log(row) == securityLog' = Logged(securityLog, row)

(***************************************************************************)
(* register                                                                *)
(***************************************************************************)
getDefaultRoleId ==
  IF \E r \in DOMAIN roles : roles[r].name = "Subordinate"
  THEN CHOOSE r \in DOMAIN roles : roles[r].name = "Subordinate"
  ELSE NULL

registerCatch_generic(p, email, class, message) ==
  /\ Log(logSecurityEvent("REGISTER_FAILED", NULL, email, message))
  /\ Return(p, Throw("BadRequestException", "Registration failed"))

\* catch (error) { logSecurityEvent('REGISTER_FAILED', ...); throw error }
registerCatch(p, email, class, message) ==
  /\ Log(logSecurityEvent("REGISTER_FAILED", NULL, email, message))
  /\ Return(p, Throw(class, message))

registerCall(p, email, password, name, roleId) ==
  /\ Begin(p, [op |-> "register", email |-> email, password |-> password,
               name |-> name, roleId |-> roleId])
  /\ IF StoreDown
     THEN registerCatch(p, email, StoreError.status, StoreError.message)
     ELSE IF findUniqueByEmail(email) # NULL
     THEN registerCatch(p, email, "ConflictException",
                        "User with this email already exists")
     ELSE /\ Suspend(p, "register_create", NoLoc)
          /\ UNCHANGED securityLog
  /\ UNCHANGED <<users, roles, auditLog, jwtSecret, jwtRefreshSecret, now,
                 issued, nextUuid, ticks, admins, down,
                 service, browser>>

registerCreate(p) ==
  /\ pc[p] = "register_create"
  /\ LET email == call[p].email
         roleId == IF call[p].roleId # NULL THEN call[p].roleId
                   ELSE getDefaultRoleId
         id == Cardinality(UserIds) + 1
         row == [email |-> email, name |-> call[p].name,
                 passwordHash |-> bcryptHash(call[p].password),
                 status |-> "ACTIVE", roleId |-> roleId,
                 lastLoginAt |-> NULL, passwordResetToken |-> NULL,
                 passwordResetExpires |-> NULL]
     IN
     IF StoreDown
     THEN /\ registerCatch(p, email, StoreError.status, StoreError.message)
          /\ UNCHANGED <<users, auditLog, issued>>
     ELSE IF roleId = NULL
     THEN /\ registerCatch(p, email, "Error", "Default role not found")
          /\ UNCHANGED <<users, auditLog, issued>>
     ELSE IF uniqueViolation(email)
     THEN /\ registerCatch(p, email, "PrismaClientKnownRequestError",
                     "Unique constraint failed on the fields: (email)")
          /\ UNCHANGED <<users, auditLog, issued>>
     ELSE IF roleId \notin DOMAIN roles
     THEN /\ registerCatch(p, email, "PrismaClientKnownRequestError",
                     "Foreign key constraint failed on the field: roleId")
          /\ UNCHANGED <<users, auditLog, issued>>
     ELSE LET user == [id |-> id, role |-> roles[roleId]] @@ row
              tokens == generateTokenPair(user, now)
              success == logSecurityEvent("REGISTER_SUCCESS", id, email,
                                          UNDEFINED)
              audit == [entity |-> "User", entityId |-> id,
                        action |-> "CREATE", actorUserId |-> id,
                        actorRole |-> user.role.name,
                        afterData |-> [email |-> email,
                                       name |-> call[p].name,
                                       roleId |-> roleId]]
          IN /\ users' = (id :> row) @@ users
             /\ IF AuditDown \/ SignDown
                \* the user is created and REGISTER_SUCCESS is logged; then
                \* auditService.log or generateTokenPair throws into the
                \* catch block
                THEN LET error == IF AuditDown THEN AuditError
                                  ELSE SignError
                     IN /\ securityLog' =
                             Logged(Logged(securityLog, success),
                                    logSecurityEvent("REGISTER_FAILED", NULL,
                                                     email, error.message))
                        /\ auditLog' = IF AuditDown THEN auditLog
                                       ELSE Append(auditLog, audit)
                        /\ UNCHANGED issued
                        /\ Return(p, error)
                ELSE /\ Log(success)
                     /\ auditLog' = Append(auditLog, audit)
                     /\ issued' = issued \cup {tokens}
                     /\ Return(p, [status |-> "ok",
                                   user |-> formatUserResponse(user),
                                   tokens |-> tokens,
                                   message |-> "Registration successful"])
  /\ UNCHANGED <<roles, jwtSecret, jwtRefreshSecret, now, call, nextUuid,
                 calls, ticks, admins, down,
                 service, browser>>

(***************************************************************************)
(* login                                                                   *)
(***************************************************************************)
Deny(userId, reason, message) ==
  [ok |-> FALSE, userId |-> userId, reason |-> reason, message |-> message]

loginCheck_leaky(email, password) ==
  LET u == findUniqueByEmail(email) IN
  IF u = NULL THEN Deny(NULL, "User not found", "User not found")
  ELSE IF users[u].status # "ACTIVE"
  THEN Deny(u, "Account inactive", "Account is inactive")
  ELSE IF ~bcryptCompare(password, users[u].passwordHash)
  THEN Deny(u, "Invalid password", "Invalid credentials")
  ELSE [ok |-> TRUE, userId |-> u, reason |-> UNDEFINED,
        message |-> "Login successful"]

loginCheck_passwordFirst(email, password) ==
  LET u == findUniqueByEmail(email) IN
  IF u = NULL THEN Deny(NULL, "User not found", "Invalid credentials")
  ELSE IF ~bcryptCompare(password, users[u].passwordHash)
  THEN Deny(u, "Invalid password", "Invalid credentials")
  ELSE IF users[u].status # "ACTIVE"
  THEN Deny(u, "Account inactive", "Account is inactive")
  ELSE [ok |-> TRUE, userId |-> u, reason |-> UNDEFINED,
        message |-> "Login successful"]

\* the checks of login up to the password comparison
loginCheck(email, password) ==
  LET u == findUniqueByEmail(email) IN
  IF u = NULL THEN Deny(NULL, "User not found", "Invalid credentials")
  ELSE IF users[u].status # "ACTIVE"
  THEN Deny(u, "Account inactive", "Account is inactive")
  ELSE IF ~bcryptCompare(password, users[u].passwordHash)
  THEN Deny(u, "Invalid password", "Invalid credentials")
  ELSE [ok |-> TRUE, userId |-> u, reason |-> UNDEFINED,
        message |-> "Login successful"]

loginCatch_rethrow(p, email, error) ==
  /\ Log(logSecurityEvent("LOGIN_FAILED", NULL, email, error.message))
  /\ Return(p, error)

\* catch (error): an UnauthorizedException is thrown again as it is; any
\* other error is logged and replaced
loginCatch(p, email, error) ==
  IF error.status = "UnauthorizedException"
  THEN /\ Return(p, error)
       /\ UNCHANGED securityLog
  ELSE /\ Log(logSecurityEvent("LOGIN_FAILED", NULL, email, error.message))
       /\ Return(p, Throw("UnauthorizedException", "Login failed"))

loginCall(p, email, password) ==
  /\ Begin(p, [op |-> "login", email |-> email, password |-> password])
  /\ LET c == loginCheck(email, password) IN
     IF StoreDown THEN loginCatch(p, email, StoreError)
     ELSE IF ~c.ok
     THEN /\ Log(logSecurityEvent("LOGIN_FAILED", c.userId, email, c.reason))
          /\ Return(p, Throw("UnauthorizedException", c.message))
     ELSE /\ Suspend(p, "login_update",
                     [u |-> c.userId, user |-> withRole(c.userId)])
          /\ UNCHANGED securityLog
  /\ UNCHANGED <<users, roles, auditLog, jwtSecret, jwtRefreshSecret, now,
                 issued, nextUuid, ticks, admins, down,
                 service, browser>>

loginUpdate(p) ==
  /\ pc[p] = "login_update"
  /\ LET user == loc[p].user
         tokens == generateTokenPair(user, now)
     IN
     IF StoreDown \/ user.id \notin UserIds
     THEN /\ loginCatch(p, call[p].email,
                        IF StoreDown THEN StoreError ELSE RecordNotFound)
          /\ UNCHANGED <<users, issued>>
     ELSE IF SignDown
     \* lastLoginAt is updated and LOGIN_SUCCESS is logged; then
     \* generateTokenPair throws into the catch block
     THEN /\ users' = prismaUpdate(user.id, [lastLoginAt |-> now])
          /\ securityLog' =
               Logged(Logged(securityLog,
                             logSecurityEvent("LOGIN_SUCCESS", user.id,
                                              call[p].email, UNDEFINED)),
                      logSecurityEvent("LOGIN_FAILED", NULL, call[p].email,
                                       SignError.message))
          /\ UNCHANGED issued
          /\ Return(p, Throw("UnauthorizedException", "Login failed"))
     ELSE /\ users' = prismaUpdate(user.id, [lastLoginAt |-> now])
          /\ Log(logSecurityEvent("LOGIN_SUCCESS", user.id, call[p].email,
                                  UNDEFINED))
          /\ issued' = issued \cup {tokens}
          /\ Return(p, [status |-> "ok", user |-> formatUserResponse(user),
                        tokens |-> tokens, message |-> "Login successful"])
  /\ UNCHANGED <<roles, auditLog, jwtSecret, jwtRefreshSecret, now, call,
                 nextUuid, calls, ticks, admins, down,
                 service, browser>>

(***************************************************************************)
(* refreshToken                                                            *)
(***************************************************************************)
refreshLoad_noInclude(u) == [withRole(u) EXCEPT !.role.rolePermissions = <<>>]

\* the user of the refresh token, loaded with role and permissions
refreshLoad(u) == withRole(u)

refreshCatch_rethrow(error) == error

\* catch (error) { throw new UnauthorizedException('Invalid refresh token') }
refreshCatch(error) == Throw("UnauthorizedException", "Invalid refresh token")

refreshThrown_afterLogout(refreshToken) ==
  IF ~jwtVerify(refreshToken, jwtRefreshSecret, now)
  THEN Throw("JsonWebTokenError", "invalid token")
  ELSE IF StoreDown THEN StoreError
  ELSE LET u == findUniqueById(refreshToken.payload.sub) IN
       IF \/ u = NULL
          \/ users[u].status # "ACTIVE"
          \/ \E i \in 1..Len(securityLog) :
                securityLog[i].event = "LOGOUT" /\ securityLog[i].userId = u
       THEN Throw("UnauthorizedException", "Invalid refresh token")
       ELSE NoResult

refreshThrown_rotated(refreshToken) ==
  IF ~jwtVerify(refreshToken, jwtRefreshSecret, now)
  THEN Throw("JsonWebTokenError", "invalid token")
  ELSE IF StoreDown THEN StoreError
  ELSE LET u == findUniqueById(refreshToken.payload.sub) IN
       IF \/ u = NULL
          \/ users[u].status # "ACTIVE"
          \/ \E t \in issued : /\ t.refreshToken.payload.sub = u
                                /\ t.refreshToken.iat > refreshToken.iat
       THEN Throw("UnauthorizedException", "Invalid refresh token")
       ELSE NoResult

refreshThrown_noStatus(refreshToken) ==
  IF ~jwtVerify(refreshToken, jwtRefreshSecret, now)
  THEN Throw("JsonWebTokenError", "invalid token")
  ELSE IF StoreDown THEN StoreError
  ELSE LET u == findUniqueById(refreshToken.payload.sub) IN
       IF u = NULL
       THEN Throw("UnauthorizedException", "Invalid refresh token")
       ELSE NoResult

\* what the try block of refreshToken throws, or NoResult when it throws
\* nothing
refreshThrown(refreshToken) ==
  IF ~jwtVerify(refreshToken, jwtRefreshSecret, now)
  THEN Throw("JsonWebTokenError", "invalid token")
  ELSE IF StoreDown THEN StoreError
  ELSE LET u == findUniqueById(refreshToken.payload.sub) IN
       IF u = NULL \/ users[u].status # "ACTIVE"
       THEN Throw("UnauthorizedException", "Invalid refresh token")
       ELSE IF SignDown THEN SignError
       ELSE NoResult

refreshTokenCall(p, refreshToken) ==
  /\ Begin(p, [op |-> "refreshToken", refreshToken |-> refreshToken])
  /\ LET u == findUniqueById(refreshToken.payload.sub) IN
     IF refreshThrown(refreshToken) # NoResult
     THEN /\ Return(p, refreshCatch(refreshThrown(refreshToken)))
          /\ UNCHANGED issued
     ELSE LET tokens == generateTokenPair(refreshLoad(u), now) IN
          /\ issued' = issued \cup {tokens}
          /\ Return(p, [status |-> "ok", tokens |-> tokens, message |-> ""])
  /\ UNCHANGED <<users, roles, securityLog, auditLog, jwtSecret,
                 jwtRefreshSecret, now, nextUuid, ticks, admins, down,
                 service, browser>>

(***************************************************************************)
(* forgotPassword                                                          *)
(***************************************************************************)
forgotPasswordMessage_leaky(u) ==
  IF u = NULL THEN "No account with this email"
  ELSE "If the email exists, a reset link has been sent"

\* the message of both return statements
forgotPasswordMessage(u) == "If the email exists, a reset link has been sent"

forgotPasswordData_tokenOnly(resetToken, resetExpires) ==
  [passwordResetToken |-> resetToken]

forgotPasswordData_hourLater(resetToken, resetExpires) ==
  [passwordResetToken |-> resetToken,
   passwordResetExpires |-> resetExpires + 45 * 60 * 1000]

forgotPasswordData(resetToken, resetExpires) ==
  [passwordResetToken |-> resetToken, passwordResetExpires |-> resetExpires]

forgotPasswordCall(p, email) ==
  /\ Begin(p, [op |-> "forgotPassword", email |-> email])
  /\ LET u == findUniqueByEmail(email) IN
     IF StoreDown
     THEN /\ Return(p, StoreError)
          /\ UNCHANGED nextUuid
     ELSE IF u = NULL
     THEN /\ Return(p, [status |-> "ok", message |-> forgotPasswordMessage(u)])
          /\ UNCHANGED nextUuid
     ELSE /\ Suspend(p, "forgotPassword_update",
                     [u |-> u, resetToken |-> nextUuid,
                      resetExpires |-> now + ResetTtlMs])
          /\ nextUuid' = nextUuid + 1
  /\ UNCHANGED <<users, roles, securityLog, auditLog, jwtSecret,
                 jwtRefreshSecret, now, issued, ticks, admins, down,
                 service, browser>>

forgotPasswordUpdate(p) ==
  /\ pc[p] = "forgotPassword_update"
  /\ IF StoreDown \/ loc[p].u \notin UserIds
     THEN /\ Return(p, IF StoreDown THEN StoreError ELSE RecordNotFound)
          /\ UNCHANGED <<users, securityLog>>
     ELSE /\ users' = prismaUpdate(loc[p].u,
                forgotPasswordData(loc[p].resetToken, loc[p].resetExpires))
          /\ Log(logSecurityEvent("PASSWORD_RESET_REQUEST", loc[p].u,
                                  call[p].email, UNDEFINED))
          /\ Return(p, [status |-> "ok",
                        message |-> forgotPasswordMessage(loc[p].u)])
  /\ UNCHANGED <<roles, auditLog, jwtSecret, jwtRefreshSecret, now, call,
                 issued, nextUuid, calls, ticks, admins, down,
                 service, browser>>

(***************************************************************************)
(* resetPassword                                                           *)
(***************************************************************************)
resetPasswordData_plain(newPassword) ==
  [passwordHash |-> newPassword, passwordResetToken |-> NULL,
   passwordResetExpires |-> NULL]

resetPasswordData(newPassword) ==
  [passwordHash |-> bcryptHash(newPassword), passwordResetToken |-> NULL,
   passwordResetExpires |-> NULL]

resetPasswordCall(p, token, newPassword) ==
  /\ Begin(p, [op |-> "resetPassword", token |-> token,
               newPassword |-> newPassword])
  /\ LET u == findFirstByResetToken(token, now) IN
     IF StoreDown THEN Return(p, StoreError)
     ELSE IF u = NULL
     THEN Return(p, Throw("BadRequestException",
                          "Invalid or expired reset token"))
     ELSE Suspend(p, "resetPassword_update",
                  [u |-> u, email |-> users[u].email])
  /\ UNCHANGED <<users, roles, securityLog, auditLog, jwtSecret,
                 jwtRefreshSecret, now, issued, nextUuid, ticks, admins, down,
                 service, browser>>

resetPasswordUpdate(p) ==
  /\ pc[p] = "resetPassword_update"
  /\ IF StoreDown \/ loc[p].u \notin UserIds
     THEN /\ Return(p, IF StoreDown THEN StoreError ELSE RecordNotFound)
          /\ UNCHANGED <<users, securityLog>>
     ELSE /\ users' = prismaUpdate(loc[p].u,
                                   resetPasswordData(call[p].newPassword))
          /\ Log(logSecurityEvent("PASSWORD_RESET_SUCCESS", loc[p].u,
                                  loc[p].email, UNDEFINED))
          /\ Return(p, [status |-> "ok",
                        message |-> "Password reset successful"])
  /\ UNCHANGED <<roles, auditLog, jwtSecret, jwtRefreshSecret, now, call,
                 issued, nextUuid, calls, ticks, admins, down,
                 service, browser>>

(***************************************************************************)
(* logout                                                                  *)
(***************************************************************************)
logoutCatch_rethrow(p, error) == Return(p, error)

\* catch (error) { ...; return { message: 'Logout completed' } }
logoutCatch(p, error) ==
  Return(p, [status |-> "ok", message |-> "Logout completed"])

logoutCall(p, userId) ==
  /\ Begin(p, [op |-> "logout", userId |-> userId])
  /\ LET u == findUniqueById(userId) IN
     IF StoreDown
     THEN /\ logoutCatch(p, StoreError)
          /\ UNCHANGED securityLog
     ELSE /\ IF u # NULL
             THEN Log(logSecurityEvent("LOGOUT", userId, users[u].email,
                                       UNDEFINED))
             ELSE UNCHANGED securityLog
          /\ Return(p, [status |-> "ok", message |-> "Logout successful"])
  /\ UNCHANGED <<users, roles, auditLog, jwtSecret, jwtRefreshSecret, now,
                 issued, nextUuid, ticks, admins, down,
                 service, browser>>

(***************************************************************************)
(* changePassword                                                          *)
(***************************************************************************)
changePasswordCall_noCheck(p, userId, currentPassword, newPassword) ==
  /\ Begin(p, [op |-> "changePassword", userId |-> userId,
               currentPassword |-> currentPassword,
               newPassword |-> newPassword])
  /\ LET u == findUniqueById(userId) IN
     IF StoreDown THEN Return(p, StoreError)
     ELSE IF u = NULL
     THEN Return(p, Throw("UnauthorizedException", "User not found"))
     ELSE Suspend(p, "changePassword_update",
                  [u |-> u, email |-> users[u].email])
  /\ UNCHANGED <<users, roles, securityLog, auditLog, jwtSecret,
                 jwtRefreshSecret, now, issued, nextUuid, ticks, admins, down,
                 service, browser>>

changePasswordCall(p, userId, currentPassword, newPassword) ==
  /\ Begin(p, [op |-> "changePassword", userId |-> userId,
               currentPassword |-> currentPassword,
               newPassword |-> newPassword])
  /\ LET u == findUniqueById(userId) IN
     IF StoreDown THEN Return(p, StoreError)
     ELSE IF u = NULL
     THEN Return(p, Throw("UnauthorizedException", "User not found"))
     ELSE IF ~bcryptCompare(currentPassword, users[u].passwordHash)
     THEN Return(p, Throw("BadRequestException",
                          "Current password is incorrect"))
     ELSE Suspend(p, "changePassword_update",
                  [u |-> u, email |-> users[u].email])
  /\ UNCHANGED <<users, roles, securityLog, auditLog, jwtSecret,
                 jwtRefreshSecret, now, issued, nextUuid, ticks, admins, down,
                 service, browser>>

changePasswordUpdate_logThrows(p) ==
  /\ pc[p] = "changePassword_update"
  /\ users' = prismaUpdate(loc[p].u,
                [passwordHash |-> bcryptHash(call[p].newPassword)])
  /\ Log(logSecurityEvent("PASSWORD_CHANGE", loc[p].u, loc[p].email,
                          UNDEFINED))
  /\ Return(p, IF "securityLog" \in down
               THEN Throw("PrismaClientKnownRequestError",
                          "Invalid prisma.securityLog.create() invocation")
               ELSE [status |-> "ok",
                     message |-> "Password changed successfully"])
  /\ UNCHANGED <<roles, auditLog, jwtSecret, jwtRefreshSecret, now, call,
                 issued, nextUuid, calls, ticks, admins, down,
                 service, browser>>

changePasswordUpdate_clearsToken(p) ==
  /\ pc[p] = "changePassword_update"
  /\ IF StoreDown \/ loc[p].u \notin UserIds
     THEN /\ Return(p, IF StoreDown THEN StoreError ELSE RecordNotFound)
          /\ UNCHANGED <<users, securityLog>>
     ELSE /\ users' = prismaUpdate(loc[p].u,
                [passwordHash |-> bcryptHash(call[p].newPassword),
                 passwordResetToken |-> NULL,
                 passwordResetExpires |-> NULL])
          /\ Log(logSecurityEvent("PASSWORD_CHANGE", loc[p].u, loc[p].email,
                                  UNDEFINED))
          /\ Return(p, [status |-> "ok",
                        message |-> "Password changed successfully"])
  /\ UNCHANGED <<roles, auditLog, jwtSecret, jwtRefreshSecret, now, call,
                 issued, nextUuid, calls, ticks, admins, down,
                 service, browser>>

changePasswordUpdate(p) ==
  /\ pc[p] = "changePassword_update"
  /\ IF StoreDown \/ loc[p].u \notin UserIds
     THEN /\ Return(p, IF StoreDown THEN StoreError ELSE RecordNotFound)
          /\ UNCHANGED <<users, securityLog>>
     ELSE /\ users' = prismaUpdate(loc[p].u,
                [passwordHash |-> bcryptHash(call[p].newPassword)])
          /\ Log(logSecurityEvent("PASSWORD_CHANGE", loc[p].u, loc[p].email,
                                  UNDEFINED))
          /\ Return(p, [status |-> "ok",
                        message |-> "Password changed successfully"])
  /\ UNCHANGED <<roles, auditLog, jwtSecret, jwtRefreshSecret, now, call,
                 issued, nextUuid, calls, ticks, admins, down,
                 service, browser>>

(***************************************************************************)
(* validateUser                                                            *)
(***************************************************************************)
\* const { passwordHash, ...result } = user
withoutPasswordHash(user) ==
  [f \in DOMAIN user \ {"passwordHash"} |-> user[f]]

validateUserCall_noStatus(p, email, password) ==
  /\ Begin(p, [op |-> "validateUser", email |-> email, password |-> password])
  /\ LET u == findUniqueByEmail(email) IN
     IF StoreDown THEN Return(p, StoreError)
     ELSE IF /\ u # NULL
             /\ bcryptCompare(password, users[u].passwordHash)
     THEN Return(p, [status |-> "ok", message |-> "", isNull |-> FALSE,
                     user |-> withoutPasswordHash(withRole(u))])
     ELSE Return(p, [status |-> "ok", message |-> "", isNull |-> TRUE])
  /\ UNCHANGED <<users, roles, securityLog, auditLog, jwtSecret,
                 jwtRefreshSecret, now, issued, nextUuid, ticks, admins, down,
                 service, browser>>

validateUserCall(p, email, password) ==
  /\ Begin(p, [op |-> "validateUser", email |-> email, password |-> password])
  /\ LET u == findUniqueByEmail(email) IN
     IF StoreDown THEN Return(p, StoreError)
     ELSE IF /\ u # NULL
             /\ users[u].status = "ACTIVE"
             /\ bcryptCompare(password, users[u].passwordHash)
     THEN Return(p, [status |-> "ok", message |-> "", isNull |-> FALSE,
                     user |-> withoutPasswordHash(withRole(u))])
     ELSE Return(p, [status |-> "ok", message |-> "", isNull |-> TRUE])
  /\ UNCHANGED <<users, roles, securityLog, auditLog, jwtSecret,
                 jwtRefreshSecret, now, issued, nextUuid, ticks, admins, down,
                 service, browser>>

(***************************************************************************)
(* Administration of users and roles, done outside the auth core.          *)
(***************************************************************************)
AdminFrame ==
  /\ admins < MaxAdmin
  /\ admins' = admins + 1
  /\ UNCHANGED <<securityLog, auditLog, jwtSecret, jwtRefreshSecret, now, pc,
                 call, loc, result, issued, nextUuid, calls, ticks, down,
                 service, browser>>

AdminSetStatus(u, s) ==
  /\ users[u].status # s
  /\ users' = prismaUpdate(u, [status |-> s])
  /\ UNCHANGED roles
  /\ AdminFrame

AdminSetUserRole(u, r) ==
  /\ users[u].roleId # r
  /\ users' = prismaUpdate(u, [roleId |-> r])
  /\ UNCHANGED roles
  /\ AdminFrame

AdminSetRolePermissions(r, ps) ==
  /\ roles[r].rolePermissions # ps
  /\ roles' = [roles EXCEPT ![r].rolePermissions = ps]
  /\ UNCHANGED users
  /\ AdminFrame

\* the user row is deleted
AdminDeleteUser(u) ==
  /\ users' = [v \in UserIds \ {u} |-> users[v]]
  /\ UNCHANGED roles
  /\ AdminFrame

(***************************************************************************)
(* Outages: the collaborators whose calls reject change.                   *)
(***************************************************************************)
Outage(S) ==
  /\ S # down
  /\ down' = S
  /\ UNCHANGED <<users, roles, securityLog, auditLog, jwtSecret,
                 jwtRefreshSecret, now, pc, call, loc, result, issued,
                 nextUuid, calls, ticks, admins, service, browser>>

(***************************************************************************)
(* Time.                                                                   *)
(***************************************************************************)
\* the clock advances by d milliseconds
Wait(d) ==
  /\ ticks < MaxTicks
  /\ ticks' = ticks + 1
  /\ now' = now + d
  /\ UNCHANGED <<users, roles, securityLog, auditLog, jwtSecret,
                 jwtRefreshSecret, pc, call, loc, result, issued, nextUuid,
                 calls, admins, down,
                 service, browser>>

Tick ==
  /\ ticks < MaxTicks
  /\ ticks' = ticks + 1
  /\ \E d \in TickSteps : now' = now + d
  /\ UNCHANGED <<users, roles, securityLog, auditLog, jwtSecret,
                 jwtRefreshSecret, pc, call, loc, result, issued, nextUuid,
                 calls, admins, down,
                 service, browser>>

(***************************************************************************)
(* The browser client: apiClient with its response interceptor            *)
(* (services/auth.service.ts) and AuthProvider with withAuth               *)
(* (contexts/auth-context.tsx).  A flow is one asynchronous call chain of  *)
(* the page; it is cut where it awaits the answer to an HTTP request.  The *)
(* server is the environment: it answers a request with 200, with 401, or  *)
(* the request fails otherwise (another status, no answer within the       *)
(* timeout), which 500 stands for.                                         *)
(***************************************************************************)
Answers == {200, 401, 500}

\* the users the server may describe in a 200 answer
ServerUsers ==
  {[id |-> 1, role |-> [name |-> "Subordinate"],
    permissions |-> <<"products:read">>],
   [id |-> 2, role |-> [name |-> "Admin"],
    permissions |-> <<"products:read", "products:write">>]}

\* arguments of withAuth; an omitted requiredPermissions behaves as [],
\* which is what <<>> stands for
RequiredPermissionLists == {<<>>, <<"products:read">>, <<"products:write">>}
RequiredRoles == {UNDEFINED, "Admin"}

includes(array, x) == \E i \in DOMAIN array : array[i] = x

hasPermission(user, permission) ==
  user # NoUser /\ includes(user.permissions, permission)

hasRole(user, role) == user # NoUser /\ user.role.name = role

\* a flow record sends the request of its next await
Send(r, at, endpoint) ==
  [r EXCEPT !.pc = at, !.endpoint = endpoint, !.nest = 0, !.retry = FALSE,
            !.seq = 1 - r.seq, !.sent = 1]

\* the provider function of a flow record returns or throws
Finish(r, outcome) ==
  [r EXCEPT !.pc = "idle", !.endpoint = "", !.nest = 0, !.retry = FALSE,
            !.seq = 0, !.outcome = outcome]

responseInterceptor_noRetryMark(r, a, storage) ==
  IF a = 200
  THEN IF r.nest = 0
       THEN [settled |-> "resolved", nest |-> 0, retry |-> r.retry,
             sent |-> r.sent, storage |-> storage, redirected |-> FALSE]
       ELSE [settled |-> "pending", nest |-> r.nest - 1, retry |-> TRUE,
             sent |-> IF r.nest = 1 THEN r.sent + 1 ELSE r.sent,
             storage |-> Tokens, redirected |-> FALSE]
  ELSE IF a = 401 /\ storage.refreshToken # NoItem
  THEN [settled |-> "pending",
        nest |-> IF r.nest < MaxNest THEN r.nest + 1 ELSE MaxNest,
        retry |-> FALSE, sent |-> r.sent, storage |-> storage,
        redirected |-> FALSE]
  ELSE IF r.nest = 0
  THEN [settled |-> "rejected", nest |-> 0, retry |-> r.retry,
        sent |-> r.sent, storage |-> storage, redirected |-> FALSE]
  ELSE [settled |-> "rejected", nest |-> 0, retry |-> r.retry,
        sent |-> r.sent, storage |-> NoTokens, redirected |-> TRUE]

\* apiClient.interceptors.response, for the request flow record r awaits,
\* answered with status a.  With nest = 0 the request is the one the
\* provider function sent; with nest = k > 0 it is the refresh request the
\* interceptor of level k - 1 awaits.  A 200 resolves the request: at
\* nest 0 the call of the provider function resolves, deeper the awaiting
\* interceptor stores the tokens and sends its own request again.  A 401
\* to a request not yet marked _retry, with a refresh token stored, makes
\* the interceptor await a new refresh request, which is sent through
\* apiClient as well.  Everything else rejects the request; every
\* interceptor awaiting above it catches the rejection, removes the
\* tokens, assigns window.location.href and rejects in turn.
responseInterceptor(r, a, storage) ==
  IF a = 200
  THEN IF r.nest = 0
       THEN [settled |-> "resolved", nest |-> 0, retry |-> r.retry,
             sent |-> r.sent, storage |-> storage, redirected |-> FALSE]
       ELSE [settled |-> "pending", nest |-> r.nest - 1, retry |-> TRUE,
             sent |-> IF r.nest = 1 THEN r.sent + 1 ELSE r.sent,
             storage |-> Tokens, redirected |-> FALSE]
  ELSE IF a = 401 /\ ~r.retry /\ storage.refreshToken # NoItem
  THEN [settled |-> "pending",
        nest |-> IF r.nest < MaxNest THEN r.nest + 1 ELSE MaxNest,
        retry |-> FALSE, sent |-> r.sent, storage |-> storage,
        redirected |-> FALSE]
  ELSE IF r.nest = 0
  THEN [settled |-> "rejected", nest |-> 0, retry |-> r.retry,
        sent |-> r.sent, storage |-> storage, redirected |-> FALSE]
  ELSE [settled |-> "rejected", nest |-> 0, retry |-> r.retry,
        sent |-> r.sent, storage |-> NoTokens, redirected |-> TRUE]

\* What a provider function does from the settling of the call it awaits
\* to its next await or its end: the flow record r continues in the browser
\* state b (localStorage, currentUser, loading, href).

\* AuthProvider.logout up to its await
logoutStart(r, b) ==
  [flow |-> Send(r, "await_logout", "/auth/logout"),
   localStorage |-> b.localStorage, currentUser |-> b.currentUser,
   loading |-> b.loading, href |-> b.href]

logoutFinally_onSuccess(r, ok, b) ==
  [flow |-> Finish(r, "resolved"),
   localStorage |-> IF ok THEN NoTokens ELSE b.localStorage,
   currentUser |-> IF ok THEN NoUser ELSE b.currentUser,
   loading |-> IF r.op = "initializeAuth" THEN FALSE ELSE b.loading,
   href |-> "/auth/login"]

\* AuthProvider.logout: the finally block; initializeAuth, when the logout
\* is the end of the refreshToken it awaits, then sets loading to false
logoutFinally(r, ok, b) ==
  [flow |-> Finish(r, "resolved"),
   localStorage |-> NoTokens, currentUser |-> NoUser,
   loading |-> IF r.op = "initializeAuth" THEN FALSE ELSE b.loading,
   href |-> "/auth/login"]

\* AuthProvider.login and AuthProvider.register after the await
loginSettled(r, ok, u, b) ==
  IF ok
  THEN [flow |-> Finish(r, "resolved"), localStorage |-> Tokens,
        currentUser |-> u, loading |-> FALSE, href |-> "/dashboard"]
  ELSE [flow |-> Finish(r, "rejected"), localStorage |-> b.localStorage,
        currentUser |-> b.currentUser, loading |-> FALSE, href |-> b.href]

\* AuthProvider.refreshToken up to its first await
refreshTokenStart(r, b) ==
  IF b.localStorage.refreshToken = NoItem
  THEN logoutStart(r, b)
  ELSE [flow |-> Send(r, "await_refresh", "/auth/refresh"),
        localStorage |-> b.localStorage, currentUser |-> b.currentUser,
        loading |-> b.loading, href |-> b.href]

\* AuthProvider.refreshToken after await authService.refreshToken
refreshTokenSettled(r, ok, b) ==
  IF ok
  THEN [flow |-> Send(r, "await_userinfo", "/auth/me"),
        localStorage |-> Tokens, currentUser |-> b.currentUser,
        loading |-> b.loading, href |-> b.href]
  ELSE logoutStart(r, b)

\* AuthProvider.refreshToken after await authService.getCurrentUser
userInfoSettled(r, ok, u, b) ==
  IF ok
  THEN [flow |-> Finish(r, "resolved"), localStorage |-> b.localStorage,
        currentUser |-> u,
        loading |-> IF r.op = "initializeAuth" THEN FALSE ELSE b.loading,
        href |-> b.href]
  ELSE logoutStart(r, b)

\* initializeAuth after await authService.getCurrentUser
initializeAuthSettled(r, ok, a, u, b) ==
  IF ok
  THEN [flow |-> Finish(r, "resolved"), localStorage |-> b.localStorage,
        currentUser |-> u, loading |-> FALSE, href |-> b.href]
  ELSE IF a = 401 THEN refreshTokenStart(r, b)
  ELSE [flow |-> Finish(r, "resolved"), localStorage |-> NoTokens,
        currentUser |-> b.currentUser, loading |-> FALSE, href |-> b.href]

\* a page that awaits authService.getCurrentUser by itself
getCurrentUserSettled(r, ok, b) ==
  [flow |-> Finish(r, IF ok THEN "resolved" ELSE "rejected"),
   localStorage |-> b.localStorage, currentUser |-> b.currentUser,
   loading |-> b.loading, href |-> b.href]

\* a new call chain takes the lowest idle flow, once initializeAuth has
\* started
ClientBegin(f) ==
  /\ flows[f].pc = "idle"
  /\ \A g \in Flows : (g < f => flows[g].pc # "idle") /\ flows[g].pc # "mount"
  /\ clientCalls' = clientCalls + 1

\* the effect of the mount of AuthProvider
initializeAuth(f) ==
  /\ flows[f].pc = "mount"
  /\ IF localStorage.accessToken # NoItem /\ localStorage.refreshToken # NoItem
     THEN /\ flows' = [flows EXCEPT ![f] = Send(@, "await_init", "/auth/me")]
          /\ UNCHANGED loading
     ELSE /\ flows' = [flows EXCEPT ![f] = Finish(@, "resolved")]
          /\ loading' = FALSE
  /\ UNCHANGED <<server, localStorage, currentUser, href, unloading, view,
                 clientCalls>>

\* AuthProvider.login (endpoint /auth/login) and AuthProvider.register
\* (endpoint /auth/register), up to the await
AuthProviderLogin(f, endpoint) ==
  /\ ClientBegin(f)
  /\ flows' = [flows EXCEPT ![f] =
                 Send([@ EXCEPT !.op = IF endpoint = "/auth/login"
                                       THEN "login" ELSE "register"],
                      "await_login", endpoint)]
  /\ loading' = TRUE
  /\ UNCHANGED <<server, localStorage, currentUser, href, unloading, view>>

\* AuthProvider.logout, called by the page, up to the await
AuthProviderLogout(f) ==
  /\ ClientBegin(f)
  /\ flows' = [flows EXCEPT ![f] =
                 Send([@ EXCEPT !.op = "logout"], "await_logout",
                      "/auth/logout")]
  /\ UNCHANGED <<server, localStorage, currentUser, loading, href,
                 unloading, view>>

\* the interval set while user is not null fires: AuthProvider.refreshToken
\* up to its await
IntervalFires(f) ==
  /\ currentUser # NoUser
  /\ ClientBegin(f)
  /\ flows' = [flows EXCEPT ![f] =
       refreshTokenStart([@ EXCEPT !.op = "refreshToken"],
                         [localStorage |-> localStorage,
                          currentUser |-> currentUser,
                          loading |-> loading, href |-> href]).flow]
  /\ UNCHANGED <<server, localStorage, currentUser, loading, href,
                 unloading, view>>

\* a page calls authService.getCurrentUser
getCurrentUser(f) ==
  /\ ClientBegin(f)
  /\ flows' = [flows EXCEPT ![f] =
                 Send([@ EXCEPT !.op = "getCurrentUser"], "await_request",
                      "/auth/me")]
  /\ UNCHANGED <<server, localStorage, currentUser, loading, href,
                 unloading, view>>

\* the request flow f awaits is answered with status a (and, where a 200
\* describes a user, with user u): the response interceptor runs, and when
\* it settles the call, the provider function continues
Respond(f, a, u) ==
  /\ flows[f].pc \notin {"idle", "mount"}
  /\ LET r == [flows[f] EXCEPT !.answer = a]
         i == responseInterceptor(r, a, localStorage)
         ri == [r EXCEPT !.nest = i.nest, !.retry = i.retry,
                         !.sent = i.sent]
         ok == i.settled = "resolved"
         b == [localStorage |-> i.storage, currentUser |-> currentUser,
               loading |-> loading,
               href |-> IF i.redirected THEN "/auth/login" ELSE href]
         n == IF i.settled = "pending"
              THEN [flow |-> [ri EXCEPT !.seq = 1 - r.seq],
                    localStorage |-> b.localStorage,
                    currentUser |-> currentUser, loading |-> loading,
                    href |-> href]
              ELSE CASE r.pc = "await_login" -> loginSettled(ri, ok, u, b)
                     [] r.pc = "await_logout" -> logoutFinally(ri, ok, b)
                     [] r.pc = "await_refresh" ->
                          refreshTokenSettled(ri, ok, b)
                     [] r.pc = "await_userinfo" ->
                          userInfoSettled(ri, ok, u, b)
                     [] r.pc = "await_init" ->
                          initializeAuthSettled(ri, ok, a, u, b)
                     [] r.pc = "await_request" ->
                          getCurrentUserSettled(ri, ok, b)
     IN /\ flows' = [flows EXCEPT ![f] = n.flow]
        /\ localStorage' = n.localStorage
        /\ currentUser' = n.currentUser
        /\ loading' = n.loading
        /\ href' = n.href
        /\ unloading' = (unloading \/ i.redirected)
  /\ UNCHANGED <<server, view, clientCalls>>

\* the navigation started by the assignment of window.location.href
\* replaces the page: the script state is lost with the requests under way,
\* localStorage stays, AuthProvider mounts again
Reload ==
  /\ unloading
  /\ unloading' = FALSE
  /\ currentUser' = NoUser
  /\ loading' = TRUE
  /\ flows' = [f \in Flows |-> IF f = 1 THEN MountFlow ELSE IdleFlow]
  /\ view' = NoView
  /\ UNCHANGED <<server, localStorage, href, clientCalls>>

\* AuthenticatedComponent of withAuth(WrappedComponent, requiredPermissions,
\* requiredRole) renders, and its effect runs
withAuth(requiredPermissions, requiredRole) ==
  /\ view' = [rendered |-> IF loading THEN "spinner"
                           ELSE IF currentUser = NoUser THEN "null"
                           ELSE "WrappedComponent",
              loading |-> loading, user |-> currentUser,
              requiredPermissions |-> requiredPermissions,
              requiredRole |-> requiredRole]
  /\ href' =
       IF ~loading /\ currentUser = NoUser THEN "/auth/login"
       ELSE IF /\ currentUser # NoUser
               /\ Truthy(requiredRole)
               /\ ~hasRole(currentUser, requiredRole)
       THEN "/dashboard"
       ELSE IF /\ currentUser # NoUser
               /\ \E i \in DOMAIN requiredPermissions :
                    ~hasPermission(currentUser, requiredPermissions[i])
       THEN "/dashboard"
       ELSE href
  /\ UNCHANGED <<server, localStorage, currentUser, loading, unloading,
                 flows, clientCalls>>

\* AuthProvider has mounted in a browser that holds the tokens of an
\* earlier visit, or none
InitClient ==
  /\ InitServer
  /\ localStorage \in {NoTokens, Tokens}
  /\ currentUser = NoUser
  /\ loading = TRUE
  /\ href = "/"
  /\ unloading = FALSE
  /\ flows = [f \in Flows |-> IF f = 1 THEN MountFlow ELSE IdleFlow]
  /\ view = NoView
  /\ clientCalls = 0

\* Requests of a page through apiClient.
NextIntercept ==
  \/ /\ clientCalls < MaxClientCalls
     /\ \E f \in Flows : getCurrentUser(f)
  \/ \E f \in Flows : initializeAuth(f)
  \/ \E f \in Flows, a \in Answers, u \in ServerUsers : Respond(f, a, u)
  \/ Reload

SpecIntercept == InitClient /\ [][NextIntercept]_vars

\* Every request is answered or fails within the timeout of apiClient
\* (30000 ms), a started navigation replaces the page, and a scheduled
\* effect runs.
SpecInterceptFair ==
  /\ SpecIntercept
  /\ \A f \in Flows :
       /\ WF_vars(\E a \in Answers, u \in ServerUsers : Respond(f, a, u))
       /\ WF_vars(initializeAuth(f))
  /\ WF_vars(Reload)

\* Signing in and out, with the periodic refresh and the requests of pages.
NextSignOut ==
  \/ /\ clientCalls < MaxClientCalls
     /\ \/ \E f \in Flows, e \in {"/auth/login", "/auth/register"} :
             AuthProviderLogin(f, e)
        \/ \E f \in Flows : AuthProviderLogout(f)
        \/ \E f \in Flows : IntervalFires(f)
        \/ \E f \in Flows : getCurrentUser(f)
  \/ \E f \in Flows : initializeAuth(f)
  \/ \E f \in Flows, a \in Answers, u \in ServerUsers : Respond(f, a, u)
  \/ Reload

SpecSignOut == InitClient /\ [][NextSignOut]_vars

\* Signing out, by users whom initializeAuth signed in with stored tokens.
NextLogout ==
  \/ /\ clientCalls < MaxClientCalls
     /\ \E f \in Flows : AuthProviderLogout(f)
  \/ \E f \in Flows : initializeAuth(f)
  \/ \E f \in Flows, a \in Answers, u \in ServerUsers : Respond(f, a, u)
  \/ Reload

SpecLogout == InitClient /\ [][NextLogout]_vars

\* Protected pages while users sign in.
NextGuard ==
  \/ /\ clientCalls < MaxGuardCalls
     /\ \E f \in Flows, e \in {"/auth/login", "/auth/register"} :
          AuthProviderLogin(f, e)
  \/ \E f \in Flows : initializeAuth(f)
  \/ \E f \in Flows, a \in Answers, u \in ServerUsers : Respond(f, a, u)
  \/ Reload
  \/ \E ps \in RequiredPermissionLists, role \in RequiredRoles :
       withAuth(ps, role)

SpecGuard == InitClient /\ [][NextGuard]_vars

(***************************************************************************)
(* Specifications.  Spec runs every operation.  The others run the         *)
(* operations of one part of the service, with a larger budget of calls:   *)
(* SpecLogin the token flows with role administration, SpecReset the       *)
(* reset-token life cycle against the clock, SpecRecover password recovery *)
(* followed by logins, SpecRegister registration.                          *)
(***************************************************************************)
RefreshInputs == UNION {{t.refreshToken, t.accessToken} : t \in issued}

Next ==
  \/ /\ calls < MaxCalls
     /\ \/ \E p \in Procs, e \in Emails, w \in Passwords, n \in Names,
              r \in RoleInputs : registerCall(p, e, w, n, r)
        \/ \E p \in Procs, e \in Emails, w \in Passwords : loginCall(p, e, w)
        \/ \E p \in Procs, k \in RefreshInputs : refreshTokenCall(p, k)
        \/ \E p \in Procs, e \in Emails : forgotPasswordCall(p, e)
        \/ \E p \in Procs, t \in ResetTokens, n \in Passwords :
             resetPasswordCall(p, t, n)
        \/ \E p \in Procs, u \in UserIdInputs : logoutCall(p, u)
        \/ \E p \in Procs, u \in UserIdInputs, w \in Passwords,
              n \in Passwords : changePasswordCall(p, u, w, n)
        \/ \E p \in Procs, e \in Emails, w \in Passwords :
             validateUserCall(p, e, w)
  \/ \E p \in Procs : registerCreate(p)
  \/ \E p \in Procs : loginUpdate(p)
  \/ \E p \in Procs : changePasswordUpdate(p)
  \/ \E p \in Procs : forgotPasswordUpdate(p)
  \/ \E p \in Procs : resetPasswordUpdate(p)
  \/ \E u \in UserIds, s \in Statuses : AdminSetStatus(u, s)
  \/ \E u \in UserIds, r \in DOMAIN roles : AdminSetUserRole(u, r)
  \/ \E r \in DOMAIN roles, ps \in PermLists : AdminSetRolePermissions(r, ps)
  \/ Tick

Spec == Init /\ [][Next]_vars

NextLogin ==
  \/ /\ calls < MaxLoginCalls
     /\ \/ \E p \in Procs, e \in Emails, w \in Passwords : loginCall(p, e, w)
        \/ \E p \in Procs, k \in RefreshInputs : refreshTokenCall(p, k)
  \/ \E p \in Procs : loginUpdate(p)
  \/ \E u \in UserIds, s \in Statuses : AdminSetStatus(u, s)
  \/ \E u \in UserIds, r \in DOMAIN roles : AdminSetUserRole(u, r)
  \/ \E r \in DOMAIN roles, ps \in PermLists : AdminSetRolePermissions(r, ps)

SpecLogin == Init /\ [][NextLogin]_vars

NextReset ==
  \/ /\ calls < MaxResetCalls
     /\ \/ \E p \in Procs, e \in Emails : forgotPasswordCall(p, e)
        \/ \E p \in Procs, t \in ResetTokens, n \in Passwords :
             resetPasswordCall(p, t, n)
  \/ \E p \in Procs : forgotPasswordUpdate(p)
  \/ \E p \in Procs : resetPasswordUpdate(p)
  \/ Tick

SpecReset == Init /\ [][NextReset]_vars

NextRecover ==
  \/ /\ calls < MaxRecoverCalls
     /\ \/ \E p \in Procs, e \in Emails : forgotPasswordCall(p, e)
        \/ \E p \in Procs, t \in ResetTokens, n \in Passwords :
             resetPasswordCall(p, t, n)
        \/ \E p \in Procs, e \in Emails, w \in Passwords : loginCall(p, e, w)
  \/ \E p \in Procs : forgotPasswordUpdate(p)
  \/ \E p \in Procs : resetPasswordUpdate(p)
  \/ \E p \in Procs : loginUpdate(p)
  \/ \E u \in UserIds, s \in Statuses : AdminSetStatus(u, s)

SpecRecover == Init /\ [][NextRecover]_vars

NextRegister ==
  \/ /\ calls < MaxRegisterCalls
     /\ \E p \in Procs, e \in Emails, w \in Passwords, n \in Names,
           r \in RoleInputs : registerCall(p, e, w, n, r)
  \/ \E p \in Procs : registerCreate(p)

SpecRegister == Init /\ [][NextRegister]_vars

\* The session life cycle: login, refresh and logout against the clock.
NextSession ==
  \/ /\ calls < MaxSessionCalls
     /\ \/ \E p \in Procs, e \in Emails, w \in Passwords : loginCall(p, e, w)
        \/ \E p \in Procs, k \in RefreshInputs : refreshTokenCall(p, k)
        \/ \E p \in Procs, u \in UserIdInputs : logoutCall(p, u)
  \/ \E p \in Procs : loginUpdate(p)
  \/ \E d \in SessionSteps : Wait(d)

SpecSession == Init /\ [][NextSession]_vars

\* Login and refresh against the clock, with users deactivated and deleted.
NextRevoke ==
  \/ /\ calls < MaxLoginCalls
     /\ \/ \E p \in Procs, e \in Emails, w \in Passwords : loginCall(p, e, w)
        \/ \E p \in Procs, k \in RefreshInputs : refreshTokenCall(p, k)
  \/ \E p \in Procs : loginUpdate(p)
  \/ \E u \in UserIds, s \in Statuses : AdminSetStatus(u, s)
  \/ \E u \in UserIds : AdminDeleteUser(u)
  \/ \E d \in SessionSteps : Wait(d)

SpecRevoke == Init /\ [][NextRevoke]_vars

\* Login and refresh in every deployment.
NextConfig ==
  \/ /\ calls < MaxLoginCalls
     /\ \/ \E p \in Procs, e \in Emails, w \in Passwords : loginCall(p, e, w)
        \/ \E p \in Procs, k \in RefreshInputs : refreshTokenCall(p, k)
  \/ \E p \in Procs : loginUpdate(p)

SpecConfig == InitDeploy /\ [][NextConfig]_vars

\* Construction from every configuration, then login and refresh.
NextBoot ==
  \/ constructor
  \/ /\ calls < MaxLoginCalls
     /\ \/ \E p \in Procs, e \in Emails, w \in Passwords : loginCall(p, e, w)
        \/ \E p \in Procs, k \in RefreshInputs : refreshTokenCall(p, k)
  \/ \E p \in Procs : loginUpdate(p)

SpecBoot == InitBoot /\ [][NextBoot]_vars

\* Registration in every deployment, with outages.
NextProvision ==
  \/ /\ calls < MaxFaultCalls
     /\ \E p \in Procs, e \in Emails, w \in Passwords, n \in Names,
           r \in RoleInputs : registerCall(p, e, w, n, r)
  \/ \E p \in Procs : registerCreate(p)
  \/ \E S \in SUBSET Collaborators : Outage(S)

SpecProvision == InitDeploy /\ [][NextProvision]_vars

\* Login with outages of either table and with users deleted.
NextLoginFaults ==
  \/ /\ calls < MaxLoginCalls
     /\ \E p \in Procs, e \in Emails, w \in Passwords : loginCall(p, e, w)
  \/ \E p \in Procs : loginUpdate(p)
  \/ \E u \in UserIds : AdminDeleteUser(u)
  \/ \E S \in SUBSET Collaborators : Outage(S)

SpecLoginFaults == Init /\ [][NextLoginFaults]_vars

\* Password changes.
NextPassword ==
  \/ /\ calls < MaxLoginCalls
     /\ \E p \in Procs, u \in UserIdInputs, w \in Passwords,
           n \in Passwords : changePasswordCall(p, u, w, n)
  \/ \E p \in Procs : changePasswordUpdate(p)

SpecPassword == Init /\ [][NextPassword]_vars

\* Password change and password recovery side by side.
NextChange ==
  \/ /\ calls < MaxResetCalls
     /\ \/ \E p \in Procs, e \in Emails : forgotPasswordCall(p, e)
        \/ \E p \in Procs, t \in ResetTokens, n \in Passwords :
             resetPasswordCall(p, t, n)
        \/ \E p \in Procs, u \in UserIdInputs, w \in Passwords,
              n \in Passwords : changePasswordCall(p, u, w, n)
  \/ \E p \in Procs : forgotPasswordUpdate(p)
  \/ \E p \in Procs : resetPasswordUpdate(p)
  \/ \E p \in Procs : changePasswordUpdate(p)

SpecChange == Init /\ [][NextChange]_vars

\* Registration and login while the store rejects, with and without a
\* message in the value it rejects with.
StoreOutages == {{}, {"store"}} \cup {{"store", m} : m \in SilentMessages}

NextFailLog ==
  \/ /\ calls < MaxFaultCalls
     /\ \/ \E p \in Procs, e \in Emails, w \in Passwords, n \in Names,
              r \in RoleInputs : registerCall(p, e, w, n, r)
        \/ \E p \in Procs, e \in Emails, w \in Passwords : loginCall(p, e, w)
  \/ \E p \in Procs : registerCreate(p)
  \/ \E p \in Procs : loginUpdate(p)
  \/ \E S \in StoreOutages : Outage(S)

SpecFailLog == Init /\ [][NextFailLog]_vars

\* Credential checks of both entry points, while accounts are activated and
\* deactivated.
NextValidate ==
  \/ /\ calls < MaxLoginCalls
     /\ \/ \E p \in Procs, e \in Emails, w \in Passwords :
             validateUserCall(p, e, w)
        \/ \E p \in Procs, e \in Emails, w \in Passwords : loginCall(p, e, w)
  \/ \E p \in Procs : loginUpdate(p)
  \/ \E u \in UserIds, s \in Statuses : AdminSetStatus(u, s)

SpecValidate == Init /\ [][NextValidate]_vars

\* Registration and login while the audit trail and the token signer come
\* and go.
NextIssue ==
  \/ /\ calls < MaxFaultCalls
     /\ \/ \E p \in Procs, e \in Emails, w \in Passwords, n \in Names,
              r \in RoleInputs : registerCall(p, e, w, n, r)
        \/ \E p \in Procs, e \in Emails, w \in Passwords : loginCall(p, e, w)
  \/ \E p \in Procs : registerCreate(p)
  \/ \E p \in Procs : loginUpdate(p)
  \/ \E S \in SUBSET {"auditService", "jwtService"} : Outage(S)

SpecIssue == Init /\ [][NextIssue]_vars

\* Every operation, while the security-log table comes and goes.
NextLogFaults ==
  \/ /\ calls < MaxFaultCalls
     /\ \/ \E p \in Procs, e \in Emails, w \in Passwords, n \in Names,
              r \in RoleInputs : registerCall(p, e, w, n, r)
        \/ \E p \in Procs, e \in Emails, w \in Passwords : loginCall(p, e, w)
        \/ \E p \in Procs, k \in RefreshInputs : refreshTokenCall(p, k)
        \/ \E p \in Procs, e \in Emails : forgotPasswordCall(p, e)
        \/ \E p \in Procs, t \in ResetTokens, n \in Passwords :
             resetPasswordCall(p, t, n)
        \/ \E p \in Procs, u \in UserIdInputs : logoutCall(p, u)
        \/ \E p \in Procs, u \in UserIdInputs, w \in Passwords,
              n \in Passwords : changePasswordCall(p, u, w, n)
        \/ \E p \in Procs, e \in Emails, w \in Passwords :
             validateUserCall(p, e, w)
  \/ \E p \in Procs : registerCreate(p)
  \/ \E p \in Procs : loginUpdate(p)
  \/ \E p \in Procs : changePasswordUpdate(p)
  \/ \E p \in Procs : forgotPasswordUpdate(p)
  \/ \E p \in Procs : resetPasswordUpdate(p)
  \/ \E S \in SUBSET {"securityLog"} : Outage(S)

SpecLogFaults == Init /\ [][NextLogFaults]_vars

\* Every operation, while the database comes and goes.
NextStoreFaults ==
  \/ /\ calls < MaxFaultCalls
     /\ \/ \E p \in Procs, e \in Emails, w \in Passwords, n \in Names,
              r \in RoleInputs : registerCall(p, e, w, n, r)
        \/ \E p \in Procs, e \in Emails, w \in Passwords : loginCall(p, e, w)
        \/ \E p \in Procs, k \in RefreshInputs : refreshTokenCall(p, k)
        \/ \E p \in Procs, e \in Emails : forgotPasswordCall(p, e)
        \/ \E p \in Procs, t \in ResetTokens, n \in Passwords :
             resetPasswordCall(p, t, n)
        \/ \E p \in Procs, u \in UserIdInputs : logoutCall(p, u)
        \/ \E p \in Procs, u \in UserIdInputs, w \in Passwords,
              n \in Passwords : changePasswordCall(p, u, w, n)
        \/ \E p \in Procs, e \in Emails, w \in Passwords :
             validateUserCall(p, e, w)
  \/ \E p \in Procs : registerCreate(p)
  \/ \E p \in Procs : loginUpdate(p)
  \/ \E p \in Procs : changePasswordUpdate(p)
  \/ \E p \in Procs : forgotPasswordUpdate(p)
  \/ \E p \in Procs : resetPasswordUpdate(p)
  \/ \E S \in {{}, Collaborators} : Outage(S)

SpecStoreFaults == Init /\ [][NextStoreFaults]_vars

(***************************************************************************)
(* Properties.  A step in which flow p takes a new request, and a step in  *)
(* which flow p returns from the await `at`.                               *)
(***************************************************************************)
Begins(p, op) ==
  /\ calls' = calls + 1
  /\ pc[p] = "idle"
  /\ \A q \in Procs : q < p => pc[q] # "idle"
  /\ call'[p].op = op

Resumes(p, at) == pc[p] = at /\ pc'[p] # at

Done(p, op) == pc[p] = "idle" /\ call[p].op = op

LastLog == securityLog[Len(securityLog)]

InvalidCredentials == Throw("UnauthorizedException", "Invalid credentials")
InvalidResetToken ==
  Throw("BadRequestException", "Invalid or expired reset token")

\* C1: a login with the email and the password of a stored ACTIVE user
\* passes the checks and returns tokens, and the permissions claim of the
\* access token is the list of permission keys the role had in the store
\* when the login loaded the user, whatever the store holds when the token
\* is signed.
C1_LoginIssuesLoadedPermissions ==
  [][\A p \in Procs :
       /\ Begins(p, "login") =>
            \A u \in UserIds :
              ( /\ users[u].email = call'[p].email
                /\ users[u].status = "ACTIVE"
                /\ bcryptCompare(call'[p].password, users[u].passwordHash) )
              => /\ pc'[p] = "login_update"
                 /\ loc'[p].user.id = u
                 /\ loc'[p].user.role.rolePermissions =
                      roles[users[u].roleId].rolePermissions
       /\ Resumes(p, "login_update") =>
            /\ pc'[p] = "idle"
            /\ result'[p].status = "ok"
            /\ result'[p].tokens.accessToken.payload.sub = loc[p].user.id
            /\ result'[p].tokens.accessToken.payload.permissions =
                 loc[p].user.role.rolePermissions
    ]_vars

\* C1 witness: a login has returned tokens whose permissions are those it
\* loaded, while the role's permissions in the store have changed since.
C1_Witness ==
  \E p \in Procs :
    /\ Done(p, "login")
    /\ result[p].status = "ok"
    /\ result[p].tokens.accessToken.payload.permissions #
         roles[users[result[p].user.id].roleId].rolePermissions

\* C2: a login with the email of an ACTIVE user and a wrong password, and a
\* login with an email no user has, both throw Unauthorized("Invalid
\* credentials"); the LOGIN_FAILED row written says "Invalid password" in
\* the first case and "User not found" in the second.
C2_SameMessageDifferentLoggedReason ==
  [][\A p \in Procs :
       Begins(p, "login") =>
         /\ (\E u \in UserIds :
               /\ users[u].email = call'[p].email
               /\ users[u].status = "ACTIVE"
               /\ ~bcryptCompare(call'[p].password, users[u].passwordHash))
            => /\ pc'[p] = "idle"
               /\ result'[p] = InvalidCredentials
               /\ Len(securityLog') = Len(securityLog) + 1
               /\ LastLog'.event = "LOGIN_FAILED"
               /\ LastLog'.errorMessage = "Invalid password"
         /\ (\A u \in UserIds : users[u].email # call'[p].email)
            => /\ pc'[p] = "idle"
               /\ result'[p] = InvalidCredentials
               /\ Len(securityLog') = Len(securityLog) + 1
               /\ LastLog'.event = "LOGIN_FAILED"
               /\ LastLog'.errorMessage = "User not found"
    ]_vars

\* C2 witness: both denials have happened and the last one returned the
\* common message.
C2_Witness ==
  /\ \E i \in DOMAIN securityLog :
       securityLog[i].errorMessage = "Invalid password"
  /\ \E i \in DOMAIN securityLog :
       securityLog[i].errorMessage = "User not found"
  /\ \E p \in Procs : Done(p, "login") /\ result[p] = InvalidCredentials

LoginDenied(p) == Begins(p, "login") /\ pc'[p] = "idle"

ForgotReturns(p) ==
  \/ Begins(p, "forgotPassword") /\ pc'[p] = "idle"
  \/ Resumes(p, "forgotPassword_update")

\* C3 as stated: any two denied logins carry the same message whatever the
\* reason of the denial, and any two forgotPassword calls return the same
\* message.
C3_UniformMessages ==
  [][\A p, q \in Procs :
       /\ ( /\ LoginDenied(p)
            /\ Done(q, "login")
            /\ result[q].status = "UnauthorizedException" )
          => result'[p].message = result[q].message
       /\ (ForgotReturns(p) /\ Done(q, "forgotPassword"))
          => result'[p].message = result[q].message
    ]_vars

\* C3 amended: a login denied for an unknown email or a wrong password
\* carries "Invalid credentials", a login denied because the account is not
\* ACTIVE carries "Account is inactive", and any two forgotPassword calls
\* return the same message.
C3_UniformExceptInactive ==
  [][\A p, q \in Procs :
       /\ LoginDenied(p) =>
            /\ result'[p].status = "UnauthorizedException"
            /\ result'[p].message =
                 IF \E u \in UserIds : /\ users[u].email = call'[p].email
                                       /\ users[u].status # "ACTIVE"
                 THEN "Account is inactive"
                 ELSE "Invalid credentials"
       /\ (ForgotReturns(p) /\ Done(q, "forgotPassword"))
          => result'[p] = result[q]
    ]_vars

\* C3 witness: logins were denied for an inactive account and for an
\* unknown email, and forgotPassword has returned for a stored user.
C3_Witness ==
  /\ \E i \in DOMAIN securityLog :
       securityLog[i].errorMessage = "Account inactive"
  /\ \E i \in DOMAIN securityLog :
       securityLog[i].errorMessage = "User not found"
  /\ \E i \in DOMAIN securityLog :
       securityLog[i].event = "PASSWORD_RESET_REQUEST"
  /\ \E p \in Procs : Done(p, "forgotPassword")

\* C4: resetPassword goes on to change the password exactly when, at the
\* call, some user stores the given token with an expiry later than now,
\* and otherwise throws BadRequest("Invalid or expired reset token"); once
\* it goes on it returns successfully; and a call that presents the token of
\* a call that has succeeded throws that BadRequest.
C4_ResetIffTokenHeld ==
  [][\A p \in Procs :
       /\ Begins(p, "resetPassword") =>
            /\ pc'[p] = "resetPassword_update"
               <=> \E u \in UserIds :
                     /\ users[u].passwordResetToken = call'[p].token
                     /\ users[u].passwordResetExpires > now
            /\ pc'[p] # "resetPassword_update"
               => pc'[p] = "idle" /\ result'[p] = InvalidResetToken
            /\ \A q \in Procs :
                 ( /\ Done(q, "resetPassword")
                   /\ result[q].status = "ok"
                   /\ call[q].token = call'[p].token )
                 => result'[p] = InvalidResetToken
       /\ Resumes(p, "resetPassword_update") =>
            pc'[p] = "idle" /\ result'[p].status = "ok"
    ]_vars

\* C4 witness: the one token handed out was used by a successful reset, and
\* the call made after it with the same token was rejected.
C4_Witness ==
  /\ calls = 3
  /\ nextUuid = 2
  /\ \E i \in DOMAIN securityLog :
       securityLog[i].event = "PASSWORD_RESET_SUCCESS"
  /\ Done(1, "resetPassword")
  /\ call[1].token = 1
  /\ result[1] = InvalidResetToken

\* C5 as stated: of two resetPassword calls that present the same token, at
\* most one succeeds.
C5_TokenConsumedOnce ==
  \A p, q \in Procs :
    ( /\ p # q
      /\ Done(p, "resetPassword")
      /\ Done(q, "resetPassword")
      /\ call[p].token = call[q].token )
    => ~(result[p].status = "ok" /\ result[q].status = "ok")

\* C6: the access token returned by refreshToken carries the role name and
\* the permission keys that the store holds for the user when refreshToken
\* runs.
C6_RefreshUsesCurrentRole ==
  [][\A p \in Procs :
       (Begins(p, "refreshToken") /\ result'[p].status = "ok") =>
         LET u == call'[p].refreshToken.payload.sub
             claims == result'[p].tokens.accessToken.payload
         IN /\ claims.sub = u
            /\ claims.role = roles[users[u].roleId].name
            /\ claims.permissions = roles[users[u].roleId].rolePermissions
    ]_vars

\* C6 witness: a refresh has returned an access token whose role or
\* permissions differ from those of the access token issued together with
\* the refresh token that was presented.
C6_Witness ==
  \E p \in Procs, t \in issued :
    /\ Done(p, "refreshToken")
    /\ result[p].status = "ok"
    /\ call[p].refreshToken = t.refreshToken
    /\ \/ t.accessToken.payload.role #
            result[p].tokens.accessToken.payload.role
       \/ t.accessToken.payload.permissions #
            result[p].tokens.accessToken.payload.permissions

\* C7: register with an email that a stored user has throws Conflict and
\* leaves the stored users as they were.
C7_DuplicateEmailConflict ==
  [][\A p \in Procs :
       ( /\ Begins(p, "register")
         /\ \E u \in UserIds : users[u].email = call'[p].email )
       => /\ pc'[p] = "idle"
          /\ result'[p] = Throw("ConflictException",
                                "User with this email already exists")
          /\ users' = users
    ]_vars

\* C7 witness: a register call has been refused with Conflict.
C7_Witness ==
  \E p \in Procs :
    /\ Done(p, "register")
    /\ result[p].status = "ConflictException"
    /\ \E u \in UserIds : users[u].email = call[p].email

\* C8 as stated: of two register calls with the same email, one creates the
\* user and the other fails with Conflict, and the email is stored once.
C8_RaceLoserGetsConflict ==
  /\ \A u, v \in UserIds : users[u].email = users[v].email => u = v
  /\ \A p, q \in Procs :
       ( /\ p # q
         /\ Done(p, "register")
         /\ Done(q, "register")
         /\ call[p].email = call[q].email
         /\ result[p].status = "ok" )
       => result[q].status = "ConflictException"

ResetCleared(p) ==
  /\ users'[loc[p].u].passwordResetToken = NULL
  /\ users'[loc[p].u].passwordResetExpires = NULL

\* what login decides for (email, password) on the store as the step
\* leaves it
LoginAcceptsAfter(email, password) ==
  \E e \in {email}, w \in {password} : (loginCheck(e, w).ok)'

NewPasswordLogsIn(p) ==
  users'[loc[p].u].status = "ACTIVE"
  => LoginAcceptsAfter(loc[p].email, call[p].newPassword)

\* C9 as stated: when resetPassword has succeeded, a login with the
\* password the user had before is refused, a login with newPassword is
\* accepted if the user is ACTIVE, and the user's reset token and expiry are
\* null.
C9_OldPasswordRefused ==
  [][\A p \in Procs :
       Resumes(p, "resetPassword_update") =>
         /\ ResetCleared(p)
         /\ NewPasswordLogsIn(p)
         /\ \A w \in Passwords :
              bcryptCompare(w, users[loc[p].u].passwordHash)
              => ~LoginAcceptsAfter(loc[p].email, w)
    ]_vars

\* C9 amended: when resetPassword has succeeded, a login with newPassword is
\* accepted if the user is ACTIVE, a login with any other password is
\* refused (so the previous password is refused unless newPassword is that
\* same password), and the user's reset token and expiry are null.
C9_OnlyNewPasswordLogsIn ==
  [][\A p \in Procs :
       Resumes(p, "resetPassword_update") =>
         /\ pc'[p] = "idle"
         /\ result'[p].status = "ok"
         /\ ResetCleared(p)
         /\ NewPasswordLogsIn(p)
         /\ \A w \in Passwords :
              w # call[p].newPassword
              => ~LoginAcceptsAfter(loc[p].email, w)
    ]_vars

\* C9 witness: after a successful reset of a password to a new one, a login
\* with the new password has returned tokens.
C9_Witness ==
  /\ \E i \in DOMAIN securityLog :
       securityLog[i].event = "PASSWORD_RESET_SUCCESS"
  /\ \E p \in Procs :
       /\ Done(p, "login")
       /\ result[p].status = "ok"
       /\ call[p].password = "NewSecret#1"

\* C10: for every stored user, the password-reset token is null exactly
\* when the password-reset expiry is null.
C10_ResetPairBothOrNeither ==
  \A u \in UserIds :
    users[u].passwordResetToken = NULL <=> users[u].passwordResetExpires = NULL

\* C10 witness: forgotPassword has stored a token together with an expiry
\* on a user.
C10_Witness ==
  /\ \E i \in DOMAIN securityLog :
       securityLog[i].event = "PASSWORD_RESET_REQUEST"
  /\ \E u \in UserIds : /\ users[u].passwordResetToken # NULL
                        /\ users[u].passwordResetExpires # NULL


InvalidRefreshToken == Throw("UnauthorizedException", "Invalid refresh token")

\* the token passes verification with the refresh secret at the present
\* time and its subject is a stored ACTIVE user
RefreshValid(k) ==
  /\ k.sig = jwtRefreshSecret
  /\ (now \div 1000) < k.exp
  /\ k.payload.sub \in UserIds
  /\ users[k.payload.sub].status = "ACTIVE"

LoggedOut(u) ==
  \E i \in 1..Len(securityLog) :
    securityLog[i].event = "LOGOUT" /\ securityLog[i].userId = u

\* C11: logout never raises.  For every userId the call ends in the step
\* that takes it and returns a message object: "Logout completed" when the
\* user lookup throws, "Logout successful" otherwise.  The only row it can
\* add to the security log is a LOGOUT row of a user the lookup found, and
\* it adds that row whenever the user is found and the log can be written.
C11_LogoutNeverRaises ==
  [][\A p \in Procs :
       Begins(p, "logout") =>
         LET userId == call'[p].userId IN
         /\ pc'[p] = "idle"
         /\ result'[p] =
              [status |-> "ok",
               message |-> IF StoreDown THEN "Logout completed"
                           ELSE "Logout successful"]
         /\ IF userId \in UserIds /\ down = {}
            THEN securityLog' =
                   Append(securityLog,
                          [userId |-> userId, event |-> "LOGOUT",
                           email |-> users[userId].email, success |-> TRUE,
                           errorMessage |-> UNDEFINED])
            ELSE securityLog' = securityLog]_vars

C11_Witness ==
  \E p \in Procs :
    /\ Done(p, "logout")
    /\ StoreDown
    /\ result[p] = [status |-> "ok", message |-> "Logout completed"]

C13_OldRefreshTokenStaysValid ==
  [][\A p \in Procs :
       Begins(p, "refreshToken") =>
         /\ RefreshValid(call'[p].refreshToken) =>
              /\ result'[p].status = "ok"
              /\ result'[p].tokens \in issued'
         /\ result'[p].status = "ok" =>
              \A t \in issued' :
                (RefreshValid(t.refreshToken))' =>
                   \E k \in {t.refreshToken} :
                     (refreshThrown(k))' = NoResult]_vars

\* the token of the only login has been refreshed, the clock has advanced,
\* and the same token has been refreshed again
C13_Witness ==
  \E p \in Procs, A \in issued, B \in issued :
    /\ Done(p, "refreshToken")
    /\ result[p].status = "ok"
    /\ call[p].refreshToken = A.refreshToken
    /\ A.refreshToken.iat < B.refreshToken.iat
    /\ B.refreshToken.iat < result[p].tokens.refreshToken.iat
    /\ Cardinality({i \in 1..Len(securityLog) :
                      securityLog[i].event = "LOGIN_SUCCESS"}) = 1

\* C14: a refreshToken call with a token that fails verification with the
\* refresh secret (wrong signature or expired), or whose subject is not a
\* stored user, or whose user is not ACTIVE, fails with
\* Unauthorized("Invalid refresh token") and issues no token pair.
C14_RefreshRefused ==
  [][\A p \in Procs :
       Begins(p, "refreshToken") /\ ~RefreshValid(call'[p].refreshToken) =>
         /\ result'[p] = InvalidRefreshToken
         /\ issued' = issued]_vars

C14_Witness ==
  \E p \in Procs :
    /\ Done(p, "refreshToken")
    /\ result[p] = InvalidRefreshToken
    /\ jwtVerify(call[p].refreshToken, jwtRefreshSecret, now)
    /\ call[p].refreshToken.payload.sub \notin UserIds

\* C15: in every deployment the constructor lets through, a refreshToken
\* call with a token that was signed as an access token (its payload has no
\* type claim) returns no token pair, and no issued refresh token verifies
\* with the access secret.
C15_AccessTokenNeverRefreshes ==
  [][/\ \A p \in Procs :
          /\ Begins(p, "refreshToken")
          /\ "type" \notin DOMAIN call'[p].refreshToken.payload
          => result'[p].status # "ok"
     /\ \A t \in issued' : t.refreshToken.sig # jwtSecret]_vars

\* C16: no register call ends with the error "Default role not found": a
\* deployment without the default role does not get as far as serving
\* calls.
C16_NoPerCallDefaultRoleError ==
  \A p \in Procs :
    ~(Done(p, "register") /\ result[p].message = "Default role not found")

\* what the try block of register throws before and at the create, or
\* NoResult when it throws nothing
RegisterThrownAtCall(email) ==
  IF StoreDown THEN StoreError
  ELSE IF \E u \in UserIds : users[u].email = email
  THEN Throw("ConflictException", "User with this email already exists")
  ELSE NoResult

RegisterThrownAtCreate(c) ==
  IF StoreDown THEN StoreError
  ELSE IF /\ c.roleId = NULL
          /\ \A r \in DOMAIN roles : roles[r].name # "Subordinate"
  THEN Throw("Error", "Default role not found")
  ELSE IF \E u \in UserIds : users[u].email = c.email
  THEN Throw("PrismaClientKnownRequestError",
             "Unique constraint failed on the fields: (email)")
  ELSE NoResult

\* C17: whenever something is thrown inside register (the store is down,
\* the email is taken at the lookup or at the create, the default role is
\* missing), the call ends with exactly that error, class and message, and
\* the row REGISTER_FAILED carrying the message of the error is appended to
\* the security log unless the log write itself is rejected; and a register
\* call fails in no other case.
C17_RegisterRethrowsOriginal ==
  [][\A p \in Procs :
       Begins(p, "register") \/ Resumes(p, "register_create") =>
         LET thrown == IF Begins(p, "register")
                       THEN RegisterThrownAtCall(call'[p].email)
                       ELSE RegisterThrownAtCreate(call[p])
         IN
         IF thrown = NoResult THEN result'[p].status \in {"none", "ok"}
         ELSE /\ pc'[p] = "idle"
              /\ result'[p] = thrown
              /\ securityLog' =
                   IF "securityLog" \in down THEN securityLog
                   ELSE Append(securityLog,
                               [userId |-> NULL, event |-> "REGISTER_FAILED",
                                email |-> call'[p].email, success |-> FALSE,
                                errorMessage |-> thrown.message])]_vars

C17_Witness ==
  \E p \in Procs :
    /\ Done(p, "register")
    /\ result[p] = StoreError
    /\ securityLog # <<>>
    /\ LastLog.event = "REGISTER_FAILED"
    /\ LastLog.email = call[p].email
    /\ LastLog.errorMessage = StoreError.message

\* a step in which flow p takes a request or goes on after an await
Acts(p) ==
  \/ /\ calls' = calls + 1
     /\ pc[p] = "idle"
     /\ \A q \in Procs : q < p => pc[q] # "idle"
  \/ pc[p] # "idle" /\ pc'[p] # pc[p]

\* C18: every step in which a login, refreshToken, changePassword or
\* resetPassword call ends with Unauthorized or BadRequest appends one row
\* to the security log, and the row records a failure.
C18_EveryDenialLogged ==
  [][\A p \in Procs :
       /\ Acts(p)
       /\ pc'[p] = "idle"
       /\ call'[p].op \in {"login", "refreshToken", "changePassword",
                           "resetPassword"}
       /\ result'[p].status \in {"UnauthorizedException",
                                 "BadRequestException"}
       => /\ Len(securityLog') = Len(securityLog) + 1
          /\ ~securityLog'[Len(securityLog')].success]_vars

Ok(message) == [status |-> "ok", message |-> message]

\* C19: the result and the user table after every step that writes a
\* security event are those the call, the store and the clock determine,
\* whether the write of the row succeeds or is rejected; a rejected write
\* leaves the log as it was.  The store is up in every step checked.
C19_OutcomeIgnoresLogFailure ==
  [][\A p \in Procs :
       /\ "securityLog" \in down => securityLog' = securityLog
       /\ Begins(p, "register") /\ pc'[p] = "idle" =>
            /\ result'[p] = RegisterThrownAtCall(call'[p].email)
            /\ users' = users
       /\ Resumes(p, "register_create") =>
            IF RegisterThrownAtCreate(call[p]) # NoResult
            THEN /\ result'[p] = RegisterThrownAtCreate(call[p])
                 /\ users' = users
            ELSE /\ result'[p].status = "ok"
                 /\ result'[p].user.email = call[p].email
                 /\ result'[p].tokens \in issued'
                 /\ \E id \in DOMAIN users' \ UserIds :
                      /\ DOMAIN users' = UserIds \cup {id}
                      /\ users'[id].email = call[p].email
                      /\ \A u \in UserIds : users'[u] = users[u]
       /\ Begins(p, "login") /\ pc'[p] = "idle" =>
            /\ result'[p] =
                 Throw("UnauthorizedException",
                       loginCheck(call'[p].email, call'[p].password).message)
            /\ users' = users
       /\ Resumes(p, "login_update") =>
            /\ result'[p] =
                 [status |-> "ok", user |-> formatUserResponse(loc[p].user),
                  tokens |-> generateTokenPair(loc[p].user, now),
                  message |-> "Login successful"]
            /\ users' = prismaUpdate(loc[p].u, [lastLoginAt |-> now])
       /\ Resumes(p, "forgotPassword_update") =>
            /\ result'[p] =
                 Ok("If the email exists, a reset link has been sent")
            /\ users' = prismaUpdate(loc[p].u,
                 [passwordResetToken |-> loc[p].resetToken,
                  passwordResetExpires |-> loc[p].resetExpires])
       /\ Resumes(p, "resetPassword_update") =>
            /\ result'[p] = Ok("Password reset successful")
            /\ users' = prismaUpdate(loc[p].u,
                 [passwordHash |-> bcryptHash(call[p].newPassword),
                  passwordResetToken |-> NULL,
                  passwordResetExpires |-> NULL])
       /\ Begins(p, "logout") =>
            /\ result'[p] = Ok("Logout successful")
            /\ users' = users
       /\ Resumes(p, "changePassword_update") =>
            /\ result'[p] = Ok("Password changed successfully")
            /\ users' = prismaUpdate(loc[p].u,
                 [passwordHash |-> bcryptHash(call[p].newPassword)])]_vars

\* a password was changed while the log could not be written: the call
\* succeeded and its PASSWORD_CHANGE row is missing
C19_Witness ==
  \E p \in Procs :
    /\ Done(p, "changePassword")
    /\ result[p] = Ok("Password changed successfully")
    /\ "securityLog" \in down
    /\ \A i \in 1..Len(securityLog) :
         securityLog[i].event # "PASSWORD_CHANGE"

\* a step in which flow p calls the user or role table
StoreAccess(p) ==
  /\ Acts(p)
  /\ Begins(p, "refreshToken") =>
       jwtVerify(call'[p].refreshToken, jwtRefreshSecret, now)

\* C20 as stated: a call whose store access is rejected ends there with
\* the error of the store.
C20_StoreErrorPropagates ==
  [][\A p \in Procs :
       StoreAccess(p) /\ StoreDown =>
         /\ pc'[p] = "idle"
         /\ result'[p] = StoreError]_vars

\* C20: a call whose store access is rejected ends in that step, without
\* another access and with the user table as it was.  register,
\* changePassword, forgotPassword, resetPassword and validateUser end with
\* the error of the store; login ends with Unauthorized("Login failed"),
\* refreshToken with Unauthorized("Invalid refresh token"), and logout
\* returns the message "Logout completed".
C20_StoreErrorPerOperation ==
  [][\A p \in Procs :
       StoreAccess(p) /\ StoreDown =>
         /\ pc'[p] = "idle"
         /\ users' = users
         /\ result'[p] =
              CASE call'[p].op = "login" ->
                     Throw("UnauthorizedException", "Login failed")
                [] call'[p].op = "refreshToken" -> InvalidRefreshToken
                [] call'[p].op = "logout" -> Ok("Logout completed")
                [] OTHER -> StoreError]_vars

C20_Witness ==
  \E p \in Procs :
    /\ Done(p, "login")
    /\ StoreDown
    /\ result[p] = Throw("UnauthorizedException", "Login failed")

LoginFailed == Throw("UnauthorizedException", "Login failed")

\* what login meets that is not one of its own denials: a rejected store
\* access, or the update of a row that is gone; NoResult otherwise
LoginUnexpected(p) ==
  IF StoreDown THEN StoreError
  ELSE IF pc[p] = "login_update" /\ loc[p].u \notin UserIds
  THEN RecordNotFound
  ELSE NoResult

\* C21: when a login meets an error that is not one of its own denials,
\* the call ends with Unauthorized("Login failed"), never with that error,
\* no user row changes, and the row LOGIN_FAILED with no user id and the
\* message of the underlying error is appended to the security log unless
\* the log write is rejected.
C21_UnexpectedLoginError ==
  [][\A p \in Procs :
       /\ Begins(p, "login") \/ Resumes(p, "login_update")
       /\ LoginUnexpected(p) # NoResult
       => /\ pc'[p] = "idle"
          /\ result'[p] = LoginFailed
          /\ users' = users
          /\ securityLog' =
               IF "securityLog" \in down THEN securityLog
               ELSE Append(securityLog,
                           [userId |-> NULL, event |-> "LOGIN_FAILED",
                            email |-> call'[p].email, success |-> FALSE,
                            errorMessage |-> LoginUnexpected(p).message])]_vars

C21_Witness ==
  \E p \in Procs :
    /\ Done(p, "login")
    /\ result[p] = LoginFailed
    /\ securityLog # <<>>
    /\ LastLog.event = "LOGIN_FAILED"
    /\ LastLog.email = call[p].email
    /\ LastLog.errorMessage = StoreError.message

\* C22: a changePassword call for an id no user has fails with
\* Unauthorized, one whose currentPassword does not match the stored hash
\* fails with BadRequest("Current password is incorrect"), and both leave
\* the user table as it was; a call that passes both checks ends with the
\* stored hash matching newPassword, the success message and a
\* PASSWORD_CHANGE row of that user.
C22_ChangePassword ==
  [][\A p \in Procs :
       /\ Begins(p, "changePassword") =>
            LET c == call'[p] IN
            /\ users' = users
            /\ securityLog' = securityLog
            /\ IF c.userId \notin UserIds
               THEN result'[p] = Throw("UnauthorizedException",
                                       "User not found")
               ELSE IF users[c.userId].passwordHash #
                         bcryptHash(c.currentPassword)
               THEN result'[p] = Throw("BadRequestException",
                                       "Current password is incorrect")
               ELSE pc'[p] = "changePassword_update"
       /\ Resumes(p, "changePassword_update") =>
            LET u == call[p].userId IN
            /\ result'[p] = Ok("Password changed successfully")
            /\ bcryptCompare(call[p].newPassword, users'[u].passwordHash)
            /\ \A v \in UserIds \ {u} : users'[v] = users[v]
            /\ securityLog' =
                 Append(securityLog,
                        [userId |-> u, event |-> "PASSWORD_CHANGE",
                         email |-> users[u].email, success |-> TRUE,
                         errorMessage |-> UNDEFINED])]_vars

C22_Witness ==
  \E p \in Procs :
    /\ Done(p, "changePassword")
    /\ result[p] = Ok("Password changed successfully")
    /\ call[p].newPassword # call[p].currentPassword
    /\ bcryptCompare(call[p].newPassword,
                     users[call[p].userId].passwordHash)
    /\ securityLog # <<>>
    /\ LastLog.event = "PASSWORD_CHANGE"
    /\ LastLog.userId = call[p].userId

ResetLinkSent == Ok("If the email exists, a reset link has been sent")

RequestRows(u) ==
  {i \in 1..Len(securityLog) :
     /\ securityLog[i].event = "PASSWORD_RESET_REQUEST"
     /\ securityLog[i].userId = u}

\* C23: forgotPassword returns one message in every case.  For an email no
\* user has it returns at once and changes no user row and no log row.  For
\* the email of a user it draws a token no user holds and the expiry of the
\* call time plus 15 minutes, and when it returns the user holds that token
\* and that expiry, no other user row has changed, and the row
\* PASSWORD_RESET_REQUEST of the user has been appended.
C23_ForgotPassword ==
  [][\A p \in Procs :
       /\ Begins(p, "forgotPassword") =>
            /\ users' = users
            /\ securityLog' = securityLog
            /\ IF \A u \in UserIds : users[u].email # call'[p].email
               THEN pc'[p] = "idle" /\ result'[p] = ResetLinkSent
               ELSE /\ pc'[p] = "forgotPassword_update"
                    /\ loc'[p].resetExpires = now + 15 * 60 * 1000
                    /\ loc'[p].resetToken # NULL
                    /\ \A u \in UserIds :
                         users[u].passwordResetToken # loc'[p].resetToken
       /\ Resumes(p, "forgotPassword_update") =>
            LET u == loc[p].u IN
            /\ result'[p] = ResetLinkSent
            /\ users'[u].email = call[p].email
            /\ users'[u].passwordResetToken = loc[p].resetToken
            /\ users'[u].passwordResetExpires = loc[p].resetExpires
            /\ \A v \in UserIds \ {u} : users'[v] = users[v]
            /\ securityLog' =
                 Append(securityLog,
                        [userId |-> u, event |-> "PASSWORD_RESET_REQUEST",
                         email |-> call[p].email, success |-> TRUE,
                         errorMessage |-> UNDEFINED])]_vars

\* a request made after the clock had advanced has been served
C23_Witness ==
  \E p \in Procs, u \in UserIds :
    /\ Done(p, "forgotPassword")
    /\ result[p] = ResetLinkSent
    /\ users[u].email = call[p].email
    /\ users[u].passwordResetToken # NULL
    /\ users[u].passwordResetExpires > ResetTtlMs
    /\ RequestRows(u) # {}

\* C24: the update of a forgotPassword call writes the token and the expiry
\* that this call drew, both in one write, whatever another call for the
\* same user wrote in between; a token it overwrites is found by no later
\* lookup, and a resetPassword call with a token no user holds fails with
\* BadRequest("Invalid or expired reset token") and changes no user row.
C24_LastWriterWins ==
  [][\A p \in Procs :
       /\ Resumes(p, "forgotPassword_update") =>
            \E u \in {loc[p].u}, old \in {users[loc[p].u].passwordResetToken} :
              /\ <<users'[u].passwordResetToken,
                   users'[u].passwordResetExpires>> =
                   <<loc[p].resetToken, loc[p].resetExpires>>
              /\ old # NULL => (findFirstByResetToken(old, now))' = NULL
       /\ /\ Begins(p, "resetPassword")
          /\ \A u \in UserIds : users[u].passwordResetToken # call'[p].token
          => /\ result'[p] = InvalidResetToken
             /\ users' = users]_vars

\* two requests for one user overlapped, and a reset with the token that
\* was overwritten has been refused
C24_Witness ==
  \E p \in Procs, q \in Procs, u \in UserIds :
    /\ p < q
    /\ Done(p, "resetPassword")
    /\ result[p] = InvalidResetToken
    /\ call[p].token < nextUuid
    /\ users[u].passwordResetToken \notin {NULL, call[p].token}
    /\ Done(q, "forgotPassword")
    /\ call[q].email = users[u].email
    /\ Cardinality(RequestRows(u)) = 2

\* C25: every validateUser call returns, the user or null, and never
\* raises, also when the store lookup is rejected; it changes no user row
\* and no log row.
C25_ValidateUserNeverRaises ==
  [][\A p \in Procs :
       Begins(p, "validateUser") =>
         /\ pc'[p] = "idle"
         /\ result'[p].status = "ok"
         /\ StoreDown => result'[p].isNull
         /\ users' = users
         /\ securityLog' = securityLog]_vars

Sensitive == {"passwordHash", "passwordResetToken", "passwordResetExpires"}

\* C26: no user object in a result of register, login or validateUser has
\* the field passwordHash, passwordResetToken or passwordResetExpires.
C26_NoSensitiveFields ==
  \A p \in Procs :
    /\ call[p].op \in {"register", "login", "validateUser"}
    /\ "user" \in DOMAIN result[p]
    => DOMAIN result[p].user \cap Sensitive = {}

\* C27: the security log is append-only: every step leaves the log as it
\* is or adds one row at its end; no row is changed or removed.
C27_LogAppendOnly ==
  [][\/ securityLog' = securityLog
     \/ /\ Len(securityLog') = Len(securityLog) + 1
        /\ SubSeq(securityLog', 1, Len(securityLog)) = securityLog]_vars

\* rows of two calls are in the log, in the order the calls wrote them
C27_Witness ==
  /\ Len(securityLog) = 2
  /\ securityLog[1].event = "LOGIN_FAILED"
  /\ securityLog[2].event = "LOGOUT"

Missing(secret) == secret \in {UNDEFINED, ""}

\* C28: construction fails exactly when the access-token secret or the
\* refresh-token secret is absent or empty, and no call is ever taken
\* unless both secrets are present.
C28_NoServiceWithoutSecrets ==
  [][/\ service' # service =>
          service' = IF Missing(jwtSecret) \/ Missing(jwtRefreshSecret)
                     THEN "failed" ELSE "constructed"
     /\ calls' # calls => ~Missing(jwtSecret) /\ ~Missing(jwtRefreshSecret)
     /\ service = "failed" => service' = "failed"]_vars

\* the access secret is set and the refresh secret is empty: construction
\* has failed and nothing has run
C28_Witness ==
  /\ service = "failed"
  /\ jwtSecret = "access-secret"
  /\ jwtRefreshSecret = ""
  /\ calls = 0

\* C29: a login for the email of a user whose status is not ACTIVE fails
\* with Unauthorized("Account is inactive") whatever the password, correct
\* or not; the row LOGIN_FAILED of that user with the reason "Account
\* inactive" is appended, and no user row changes, lastLoginAt included.
C29_InactiveBeforePassword ==
  [][\A p \in Procs, u \in UserIds :
       /\ Begins(p, "login")
       /\ users[u].email = call'[p].email
       /\ users[u].status \in {"INACTIVE", "SUSPENDED"}
       => /\ pc'[p] = "idle"
          /\ result'[p] = Throw("UnauthorizedException", "Account is inactive")
          /\ users' = users
          /\ securityLog' =
               Append(securityLog,
                      [userId |-> u, event |-> "LOGIN_FAILED",
                       email |-> users[u].email, success |-> FALSE,
                       errorMessage |-> "Account inactive"])]_vars

\* a wrong password has been refused for a suspended account with the
\* message of the status check
C29_Witness ==
  \E p \in Procs, u \in UserIds :
    /\ Done(p, "login")
    /\ users[u].email = call[p].email
    /\ users[u].status = "SUSPENDED"
    /\ ~bcryptCompare(call[p].password, users[u].passwordHash)
    /\ result[p] = Throw("UnauthorizedException", "Account is inactive")
    /\ securityLog # <<>>
    /\ LastLog.errorMessage = "Account inactive"

\* the pairs a step hands out
Issues == issued' \ issued

\* C30: every token pair handed out by login or refreshToken has, as the
\* permissions claim of its access token, the permission keys of the role
\* as loaded, in the order of the join and with every repetition, and a
\* refresh token whose payload is the subject id and the type "refresh"
\* and nothing else.
C30_TokenClaims ==
  [][\A p \in Procs :
       /\ Resumes(p, "login_update") =>
            \A t \in Issues :
              /\ t.accessToken.payload.permissions =
                   loc[p].user.role.rolePermissions
              /\ t.refreshToken.payload =
                   [sub |-> loc[p].u, type |-> "refresh"]
       /\ Begins(p, "refreshToken") =>
            \A t \in Issues :
              LET u == call'[p].refreshToken.payload.sub IN
              /\ t.accessToken.payload.permissions =
                   roles[users[u].roleId].rolePermissions
              /\ t.refreshToken.payload = [sub |-> u, type |-> "refresh"]]_vars

\* a token has been issued for a role whose join holds a key twice
C30_Witness ==
  \E t \in issued :
    /\ t.accessToken.payload.permissions =
         <<"products:read", "products:read">>
    /\ DOMAIN t.refreshToken.payload = {"sub", "type"}

\* C31: the step that ends a register or login call appends exactly one
\* row to the security log, the SUCCESS row of the operation when the call
\* returns tokens and its FAILED row when the call raises, and a register
\* call that raises leaves the user table as it was.
C31_OneOutcomeEvent ==
  [][\A p \in Procs :
       /\ Acts(p)
       /\ pc'[p] = "idle"
       /\ call'[p].op \in {"register", "login"}
       => /\ Len(securityLog') = Len(securityLog) + 1
          /\ securityLog'[Len(securityLog')].event =
               IF result'[p].status = "ok"
               THEN (IF call'[p].op = "login" THEN "LOGIN_SUCCESS"
                     ELSE "REGISTER_SUCCESS")
               ELSE (IF call'[p].op = "login" THEN "LOGIN_FAILED"
                     ELSE "REGISTER_FAILED")
          /\ call'[p].op = "register" /\ result'[p].status # "ok" =>
               users' = users]_vars

\* C32: the update of a resetPassword call leaves in place an unexpired
\* reset token that differs from the token the call presented.
C32_OtherTokenSurvives ==
  [][\A p \in Procs :
       /\ Resumes(p, "resetPassword_update")
       /\ loc[p].u \in UserIds
       /\ users[loc[p].u].passwordResetToken \notin {NULL, call[p].token}
       /\ users[loc[p].u].passwordResetExpires > now
       => users'[loc[p].u].passwordResetToken =
            users[loc[p].u].passwordResetToken]_vars

\* the credentials (email, password) are those of an active account
Credentials(email, password) ==
  \E u \in UserIds : /\ users[u].email = email
                     /\ users[u].status = "ACTIVE"
                     /\ users[u].passwordHash = bcryptHash(password)

\* C33: with the store and the log working, validateUser answers with a
\* user exactly when the credentials are those of an active account at its
\* lookup, login passes its checks exactly then, and a login that passed
\* its checks returns tokens: both decide the same credentials the same way.
C33_SameCredentialDecision ==
  [][\A p \in Procs :
       /\ Begins(p, "validateUser") =>
            /\ result'[p].status = "ok"
            /\ ~result'[p].isNull <=>
                 Credentials(call'[p].email, call'[p].password)
       /\ Begins(p, "login") =>
            IF Credentials(call'[p].email, call'[p].password)
            THEN pc'[p] = "login_update"
            ELSE pc'[p] = "idle" /\ result'[p].status # "ok"
       /\ Resumes(p, "login_update") => result'[p].status = "ok"]_vars

C33_Witness ==
  /\ Done(1, "login") /\ result[1].status = "ok"
  /\ Done(2, "validateUser") /\ ~result[2].isNull
  /\ call[1].email = call[2].email
  /\ call[1].password = call[2].password

\* C34: the update of a successful changePassword replaces the password
\* hash of its user and nothing else in the user table, so every reset
\* token resetPassword would accept before the update it accepts after it,
\* for the same user.
C34_ChangeKeepsResetToken ==
  [][\A p \in Procs :
       Resumes(p, "changePassword_update") /\ result'[p].status = "ok"
       => /\ users' = [users EXCEPT ![loc[p].u].passwordHash =
                                     bcryptHash(call[p].newPassword)]
          /\ \A t \in ResetTokens :
               findFirstByResetToken(t, now)' = findFirstByResetToken(t, now)
     ]_vars

\* a reset token requested before a password change was accepted after it
C34_Witness ==
  \E i, j, k \in DOMAIN securityLog :
    /\ i < j /\ j < k
    /\ securityLog[i].event = "PASSWORD_RESET_REQUEST"
    /\ securityLog[j].event = "PASSWORD_CHANGE"
    /\ securityLog[k].event = "PASSWORD_RESET_SUCCESS"
    /\ securityLog[i].userId = securityLog[j].userId
    /\ securityLog[j].userId = securityLog[k].userId
    /\ \A m \in DOMAIN securityLog :
         securityLog[m].event = "PASSWORD_RESET_REQUEST" => m = i

\* C40: every security-log row of a FAILED event has success = FALSE.
C40_FailedRowsNotSuccess ==
  \A i \in DOMAIN securityLog :
    securityLog[i].event \in {"LOGIN_FAILED", "REGISTER_FAILED"} =>
      ~securityLog[i].success

\* C35: a flow whose interceptor refresh was answered 401 and entered again
\* (its refresh requests are nested two deep or more) eventually leaves
\* the refresh attempts: its request is settled or the page is replaced.
C35_RefreshFailureTerminates ==
  \A f \in Flows :
    (flows[f].nest >= 2 /\ flows[f].answer = 401) ~> (flows[f].nest = 0)

\* the request flow f awaits is answered with status a
Answered(f, a) ==
  /\ flows[f].pc \notin {"idle", "mount"}
  /\ flows'[f] # flows[f]
  /\ flows'[f].answer = a

\* the call flow f awaits is settled: its function goes on or ends (the
\* page is not replaced by the step)
Settled(f) ==
  /\ flows[f].pc \notin {"idle", "mount"}
  /\ flows'[f].pc # flows[f].pc
  /\ unloading => unloading'

\* C36: the request of a call is sent at most twice.  A 401 to a request
\* that is a re-send settles the call without another refresh, and for a
\* page's own request it rejects the call.  A 401 while no refresh token is
\* stored settles the call without a re-send and leaves localStorage as it
\* is.
C36_RetriedAtMostOnce ==
  [][\A f \in Flows :
       /\ flows'[f].sent <= 2
       /\ Answered(f, 401) /\ flows[f].retry =>
            /\ Settled(f)
            /\ flows'[f].nest = 0
            /\ flows[f].pc = "await_request" =>
                 /\ flows'[f].pc = "idle"
                 /\ flows'[f].outcome = "rejected"
                 /\ flows'[f].sent = flows[f].sent
       /\ Answered(f, 401) /\ ~flows[f].retry
            /\ localStorage.refreshToken = NoItem =>
            /\ Settled(f)
            /\ localStorage' = localStorage
            /\ flows[f].pc = "await_request" =>
                 /\ flows'[f].pc = "idle"
                 /\ flows'[f].outcome = "rejected"
                 /\ flows'[f].sent = flows[f].sent]_vars

\* a page's request was re-sent after a refresh, answered 401 again and
\* rejected
C36_Witness ==
  \E f \in Flows : /\ flows[f].op = "getCurrentUser"
                   /\ flows[f].pc = "idle"
                   /\ flows[f].outcome = "rejected"
                   /\ flows[f].answer = 401
                   /\ flows[f].sent = 2
                   /\ localStorage = Tokens

\* C37: the step in which the call authService.logout of a logout settles,
\* resolved or rejected, leaves the state user null and localStorage
\* without the two tokens.
C37_LogoutClears ==
  [][\A f \in Flows :
       flows[f].pc = "await_logout" /\ Settled(f)
       => /\ currentUser' = NoUser
          /\ localStorage' = NoTokens
          /\ flows'[f].pc = "idle"]_vars

\* initializeAuth signed a user in on flow 1, and a logout begun meanwhile
\* on flow 2 ended on a failed logout request
C37_Witness ==
  /\ flows[1].op = "initializeAuth"
  /\ flows[1].pc = "idle"
  /\ flows[1].answer = 200
  /\ flows[2].op = "logout"
  /\ flows[2].pc = "idle"
  /\ flows[2].answer = 500
  /\ currentUser = NoUser
  /\ localStorage = NoTokens

\* flow f, which awaits a token refresh (that of AuthProvider.refreshToken
\* or one of the interceptor), takes a step
RefreshStep(f) ==
  /\ flows'[f] # flows[f]
  /\ flows[f].pc # "await_login"
  /\ \/ flows[f].pc \in {"await_refresh", "await_userinfo"}
     \/ flows[f].nest >= 1

\* C38: while a completed logout is the last thing a flow did, the user
\* state is null and the tokens are absent, a step of a flow that awaits a
\* token refresh leaves the user state null and the tokens absent.
C38_LogoutStays ==
  [][\A f \in Flows :
       /\ \E g \in Flows : flows[g].op = "logout" /\ flows[g].pc = "idle"
       /\ currentUser = NoUser
       /\ localStorage = NoTokens
       /\ RefreshStep(f)
       => currentUser' = NoUser /\ localStorage' = NoTokens]_vars

\* C39: when the component wrapped by withAuth was rendered, loading was
\* false, a user was present, and the user had the required role and
\* every required permission.
C39_RenderedOnlyWhenAllowed ==
  view.rendered = "WrappedComponent" =>
    /\ ~view.loading
    /\ view.user # NoUser
    /\ Truthy(view.requiredRole) => hasRole(view.user, view.requiredRole)
    /\ \A i \in DOMAIN view.requiredPermissions :
         hasPermission(view.user, view.requiredPermissions[i])
=============================================================================
